---- MODULE Spec2Model ----
(***************************************************************************)
(* Audio quality analysis and multi-stage refinement (IsaiahDupree/TTS).   *)
(*                                                                         *)
(*   audio_quality_analyzer.py     AudioQualityAnalyzer                    *)
(*   audio_refinement_processor.py AudioRefinementProcessor                *)
(*                                                                         *)
(* Real numbers (durations, ratios) are exact rationals <<num, den>> with  *)
(* den > 0, so every threshold comparison of the code is decided exactly.  *)
(***************************************************************************)
EXTENDS Integers, Sequences, FiniteSets, TLC

VARIABLES
    audio,        \* analyze_audio_file: the decoded file under analysis
    metrics,      \* analyze_audio_file: the metrics dict / the value returned
    audio_dir,    \* AudioQualityAnalyzer.audio_dir, as found on disk
    audio_files,  \* analyze_all_audio: the list of files built by the last call
    results,      \* AudioQualityAnalyzer.results
    prior,        \* history: results as the last analyze_all_audio call found it
    collected,    \* history: the records that call appended, in append order
    filtered,     \* the value returned by the last filter_high_quality call
    calls,        \* the number of analyze_all_audio calls made
    fs,           \* the files on disk: path -> content
    jobs,         \* the process_audio_file invocations, each with its position
    batch,        \* process_high_quality_files: arguments, loop index, processed
    buffer,       \* one stage alone: the samples and sample rate it loaded
    stage_out,    \* one stage alone: what it wrote and the value it returned
    api           \* call_indextts2_api: the position and history of one call

analysisVars == <<audio, metrics>>

corpusVars == <<audio_dir, audio_files, results, prior, collected, filtered, calls>>

refineVars == <<fs, jobs, batch>>

stageVars == <<buffer, stage_out, api>>

vars == <<analysisVars, corpusVars, refineVars, stageVars>>

\* The state of a component that a specification does not exercise.
AnalysisIdle ==
    /\ audio = [kind |-> "none"]
    /\ metrics = [kind |-> "idle"]

CorpusIdle ==
    /\ audio_dir = [exists |-> FALSE, case_insensitive |-> FALSE, entries |-> <<>>]
    /\ audio_files = <<>>
    /\ results = <<>>
    /\ prior = <<>>
    /\ collected = <<>>
    /\ filtered = [kind |-> "none"]
    /\ calls = 0

RefineIdle ==
    /\ fs = <<>>
    /\ jobs = <<>>
    /\ batch = [status |-> "idle"]

StageIdle ==
    /\ buffer = [kind |-> "none"]
    /\ stage_out = [kind |-> "idle"]
    /\ api = [pc |-> "idle"]

(***************************************************************************)
(* Exact rational arithmetic                                               *)
(***************************************************************************)
Rat(n, d) == <<n, d>>

RLt(a, b) == a[1] * b[2] < b[1] * a[2]

RLe(a, b) == a[1] * b[2] <= b[1] * a[2]

RGt(a, b) == RLt(b, a)

RGe(a, b) == RLe(b, a)

REq(a, b) == a[1] * b[2] = b[1] * a[2]

Abs(x) == IF x < 0 THEN -x ELSE x

RECURSIVE GCD(_, _)
GCD(a, b) == IF b = 0 THEN a ELSE GCD(b, a % b)

\* Lowest terms, so that products stay small.
Norm(a) ==
    LET g == GCD(Abs(a[1]), a[2])
    IN  IF g = 0 THEN a ELSE <<a[1] \div g, a[2] \div g>>

RSub(a, b) == Norm(<<a[1] * b[2] - b[1] * a[2], a[2] * b[2]>>)

RDiv(a, b) == Norm(<<a[1] * b[2], a[2] * b[1]>>)

(***************************************************************************)
(* Paths: a pathlib.Path is [dir, stem, ext]; .name is stem + ext and      *)
(* str() joins the directory and the name.                                 *)
(***************************************************************************)
FilePath(dir, stem, ext) == [dir |-> dir, stem |-> stem, ext |-> ext]

PathName(p) == p.stem \o p.ext

PathStr(p) == p.dir \o "/" \o PathName(p)

(***************************************************************************)
(* Quality Layer 6: the composite quality score                            *)
(* (analyze_audio_file, audio_quality_analyzer.py lines 144-185).          *)
(* The code starts from 0.0 and adds one bucket per term, each chosen by   *)
(* an if/elif chain.                                                       *)
(***************************************************************************)
DurationScore(duration) ==
    IF RGe(duration, Rat(10, 1)) THEN 25
    ELSE IF RGe(duration, Rat(5, 1)) THEN 20
    ELSE IF RGe(duration, Rat(3, 1)) THEN 15
    ELSE 5

SnrScoreInclusive(snr_estimate) ==
    IF RGe(snr_estimate, Rat(20, 1)) THEN 25
    ELSE IF RGe(snr_estimate, Rat(10, 1)) THEN 20
    ELSE IF RGe(snr_estimate, Rat(5, 1)) THEN 15
    ELSE 5

SnrScore(snr_estimate) ==
    IF RGt(snr_estimate, Rat(20, 1)) THEN 25
    ELSE IF RGt(snr_estimate, Rat(10, 1)) THEN 20
    ELSE IF RGt(snr_estimate, Rat(5, 1)) THEN 15
    ELSE 5

ClarityScoreNoFloor(harmonic_noise_ratio) ==
    IF RGt(harmonic_noise_ratio, Rat(2, 1)) THEN 25
    ELSE IF RGt(harmonic_noise_ratio, Rat(1, 1)) THEN 20
    ELSE 5

ClarityScore(harmonic_noise_ratio) ==
    IF RGt(harmonic_noise_ratio, Rat(2, 1)) THEN 25
    ELSE IF RGt(harmonic_noise_ratio, Rat(1, 1)) THEN 20
    ELSE 10

CompletenessScoreInclusive(silence_ratio) ==
    IF RLe(silence_ratio, Rat(1, 10)) THEN 25
    ELSE IF RLe(silence_ratio, Rat(3, 10)) THEN 20
    ELSE IF RLe(silence_ratio, Rat(5, 10)) THEN 15
    ELSE 5

CompletenessScore(silence_ratio) ==
    IF RLt(silence_ratio, Rat(1, 10)) THEN 25
    ELSE IF RLt(silence_ratio, Rat(3, 10)) THEN 20
    ELSE IF RLt(silence_ratio, Rat(5, 10)) THEN 15
    ELSE 5

QualityScore(m) ==
    LET q0 == 0
        q1 == q0 + DurationScore(m.duration)
        q2 == q1 + SnrScore(m.snr_estimate)
        q3 == q2 + ClarityScore(m.harmonic_noise_ratio)
        q4 == q3 + CompletenessScore(m.silence_ratio)
    IN  q4

\* metrics["quality_score"] = float(quality_score): the dict gains its last key.
WithQualityScore(m) ==
    [kind                 |-> "metrics",
     duration             |-> m.duration,
     snr_estimate         |-> m.snr_estimate,
     harmonic_noise_ratio |-> m.harmonic_noise_ratio,
     effective_duration   |-> m.effective_duration,
     silence_ratio        |-> m.silence_ratio,
     file                 |-> m.file,
     filename             |-> m.filename,
     quality_score        |-> QualityScore(m)]

(***************************************************************************)
(* SpecScore: the scoring layer on its own.  The four scored metrics are   *)
(* drawn from sets that hold every threshold, a value on each side of it   *)
(* and the values of the documented scenarios.                             *)
(***************************************************************************)
NoAudio == [kind |-> "none"]

Durations ==
    {Rat(0, 1), Rat(2, 1), Rat(29, 10), Rat(3, 1), Rat(49, 10), Rat(5, 1),
     Rat(99, 10), Rat(10, 1), Rat(11, 1)}

SnrEstimates ==
    {Rat(0, 1), Rat(1, 1), Rat(5, 1), Rat(51, 10), Rat(10, 1), Rat(101, 10),
     Rat(20, 1), Rat(201, 10), Rat(25, 1)}

HarmonicRatios ==
    {Rat(0, 1), Rat(1, 2), Rat(1, 1), Rat(11, 10), Rat(2, 1), Rat(5, 2)}

SilenceRatios ==
    {Rat(0, 1), Rat(1, 20), Rat(1, 10), Rat(29, 100), Rat(3, 10), Rat(2, 5),
     Rat(1, 2), Rat(9, 10), Rat(1, 1)}

PartialMetrics(d, s, h, r) ==
    [kind                 |-> "partial",
     duration             |-> d,
     snr_estimate         |-> s,
     harmonic_noise_ratio |-> h,
     effective_duration   |-> Rat(0, 1),
     silence_ratio        |-> r,
     file                 |-> FilePath("audio_samples", "buffer", ".wav"),
     filename             |-> "buffer.wav"]

InitScore ==
    /\ CorpusIdle
    /\ RefineIdle
    /\ StageIdle
    /\ audio = NoAudio
    /\ \E d \in Durations, s \in SnrEstimates, h \in HarmonicRatios,
          r \in SilenceRatios :
          metrics = PartialMetrics(d, s, h, r)

ComputeQualityScore ==
    /\ metrics.kind = "partial"
    /\ metrics' = WithQualityScore(metrics)
    /\ UNCHANGED <<audio, corpusVars, refineVars, stageVars>>

NextScore == ComputeQualityScore

SpecScore == InitScore /\ [][NextScore]_vars

(***************************************************************************)
(* C1: for every combination of duration, snr_estimate,                    *)
(* harmonic_noise_ratio and silence_ratio the quality_score lies in        *)
(* [20,100] and is the sum of the four buckets of the documented table     *)
(* (one bucket per term, nothing else added or scaled); scenario B         *)
(* (11, 25, 2.5, 0.05) scores 100 and scenario C (2, 1, 0.5, 0.9) 25.      *)
(***************************************************************************)
TableDuration(d) ==
    CASE RGe(d, Rat(10, 1)) -> 25
      [] RGe(d, Rat(5, 1)) /\ RLt(d, Rat(10, 1)) -> 20
      [] RGe(d, Rat(3, 1)) /\ RLt(d, Rat(5, 1)) -> 15
      [] RLt(d, Rat(3, 1)) -> 5

TableSnr(s) ==
    CASE RGt(s, Rat(20, 1)) -> 25
      [] RGt(s, Rat(10, 1)) /\ RLe(s, Rat(20, 1)) -> 20
      [] RGt(s, Rat(5, 1)) /\ RLe(s, Rat(10, 1)) -> 15
      [] RLe(s, Rat(5, 1)) -> 5

TableHarmonic(h) ==
    CASE RGt(h, Rat(2, 1)) -> 25
      [] RGt(h, Rat(1, 1)) /\ RLe(h, Rat(2, 1)) -> 20
      [] RLe(h, Rat(1, 1)) -> 10

TableSilence(r) ==
    CASE RLt(r, Rat(1, 10)) -> 25
      [] RGe(r, Rat(1, 10)) /\ RLt(r, Rat(3, 10)) -> 20
      [] RGe(r, Rat(3, 10)) /\ RLt(r, Rat(5, 10)) -> 15
      [] RGe(r, Rat(5, 10)) -> 5

IsScenario(m, d, s, h, r) ==
    /\ REq(m.duration, d)
    /\ REq(m.snr_estimate, s)
    /\ REq(m.harmonic_noise_ratio, h)
    /\ REq(m.silence_ratio, r)

ScenarioB(m) == IsScenario(m, Rat(11, 1), Rat(25, 1), Rat(5, 2), Rat(1, 20))

ScenarioC(m) == IsScenario(m, Rat(2, 1), Rat(1, 1), Rat(1, 2), Rat(9, 10))

C1_ScoreIsBucketSum ==
    metrics.kind = "metrics" =>
        /\ metrics.quality_score \in 20..100
        /\ metrics.quality_score =
              TableDuration(metrics.duration) + TableSnr(metrics.snr_estimate)
              + TableHarmonic(metrics.harmonic_noise_ratio)
              + TableSilence(metrics.silence_ratio)
        /\ ScenarioB(metrics) => metrics.quality_score = 100
        /\ ScenarioC(metrics) => metrics.quality_score = 25

C1_Witness ==
    /\ metrics.kind = "metrics"
    /\ ScenarioB(metrics)
    /\ metrics.quality_score = 100

(***************************************************************************)
(* C24: each score term is chosen by the first matching threshold in       *)
(* descending priority, with these boundary results: duration exactly 10,  *)
(* 5, 3 s earns 25, 20, 15 (inclusive >=); snr_estimate exactly 20, 10, 5  *)
(* earns 20, 15, 5 (strict >); harmonic ratio exactly 2.0, 1.0 earns 20,   *)
(* 10 (strict >); silence_ratio exactly 0.1, 0.3, 0.5 earns 20, 15, 5      *)
(* (strict <); so the buckets of each term are disjoint and cover every    *)
(* value.  The buckets are written as the half-open intervals between the  *)
(* thresholds; the score returned is the sum of the one bucket of each     *)
(* term that holds the value.                                              *)
(***************************************************************************)
Pick(cond, points) == IF cond THEN {points} ELSE {}

DurationBuckets(d) ==
    Pick(RGe(d, Rat(10, 1)), 25)
    \cup Pick(RGe(d, Rat(5, 1)) /\ RLt(d, Rat(10, 1)), 20)
    \cup Pick(RGe(d, Rat(3, 1)) /\ RLt(d, Rat(5, 1)), 15)
    \cup Pick(RLt(d, Rat(3, 1)), 5)

SnrBuckets(s) ==
    Pick(RGt(s, Rat(20, 1)), 25)
    \cup Pick(RGt(s, Rat(10, 1)) /\ RLe(s, Rat(20, 1)), 20)
    \cup Pick(RGt(s, Rat(5, 1)) /\ RLe(s, Rat(10, 1)), 15)
    \cup Pick(RLe(s, Rat(5, 1)), 5)

HarmonicBuckets(h) ==
    Pick(RGt(h, Rat(2, 1)), 25)
    \cup Pick(RGt(h, Rat(1, 1)) /\ RLe(h, Rat(2, 1)), 20)
    \cup Pick(RLe(h, Rat(1, 1)), 10)

SilenceBuckets(r) ==
    Pick(RLt(r, Rat(1, 10)), 25)
    \cup Pick(RGe(r, Rat(1, 10)) /\ RLt(r, Rat(3, 10)), 20)
    \cup Pick(RGe(r, Rat(3, 10)) /\ RLt(r, Rat(5, 10)), 15)
    \cup Pick(RGe(r, Rat(5, 10)), 5)

C24_BoundariesAndDisjointBuckets ==
    metrics.kind = "metrics" =>
        LET d == metrics.duration
            s == metrics.snr_estimate
            h == metrics.harmonic_noise_ratio
            r == metrics.silence_ratio
        IN  /\ metrics.quality_score =
                  DurationScore(d) + SnrScore(s) + ClarityScore(h) + CompletenessScore(r)
            /\ DurationBuckets(d) = {DurationScore(d)}
            /\ SnrBuckets(s) = {SnrScore(s)}
            /\ HarmonicBuckets(h) = {ClarityScore(h)}
            /\ SilenceBuckets(r) = {CompletenessScore(r)}
            /\ REq(d, Rat(10, 1)) => DurationScore(d) = 25
            /\ REq(d, Rat(5, 1)) => DurationScore(d) = 20
            /\ REq(d, Rat(3, 1)) => DurationScore(d) = 15
            /\ REq(s, Rat(20, 1)) => SnrScore(s) = 20
            /\ REq(s, Rat(10, 1)) => SnrScore(s) = 15
            /\ REq(s, Rat(5, 1)) => SnrScore(s) = 5
            /\ REq(h, Rat(2, 1)) => ClarityScore(h) = 20
            /\ REq(h, Rat(1, 1)) => ClarityScore(h) = 10
            /\ REq(r, Rat(1, 10)) => CompletenessScore(r) = 20
            /\ REq(r, Rat(3, 10)) => CompletenessScore(r) = 15
            /\ REq(r, Rat(5, 10)) => CompletenessScore(r) = 5

\* A record whose four metrics all stand exactly on a threshold has been
\* scored: 20 + 15 + 20 + 15.
C24_Witness ==
    /\ metrics.kind = "metrics"
    /\ REq(metrics.duration, Rat(5, 1))
    /\ REq(metrics.snr_estimate, Rat(10, 1))
    /\ REq(metrics.harmonic_noise_ratio, Rat(2, 1))
    /\ REq(metrics.silence_ratio, Rat(3, 10))
    /\ metrics.quality_score = 70

(***************************************************************************)
(* C2 (as stated): the range of the score is exactly [20,100]; the four    *)
(* minimum buckets sum to 20 and an input attains it.  Stated on the       *)
(* inputs whose four terms all fall in their lowest bucket.                *)
(***************************************************************************)
AllLowestBuckets(m) ==
    /\ RLt(m.duration, Rat(3, 1))
    /\ RLe(m.snr_estimate, Rat(5, 1))
    /\ RLe(m.harmonic_noise_ratio, Rat(1, 1))
    /\ RGe(m.silence_ratio, Rat(5, 10))

AllHighestBuckets(m) ==
    /\ RGe(m.duration, Rat(10, 1))
    /\ RGt(m.snr_estimate, Rat(20, 1))
    /\ RGt(m.harmonic_noise_ratio, Rat(2, 1))
    /\ RLt(m.silence_ratio, Rat(1, 10))

C2_MinimumIs20 ==
    (metrics.kind = "metrics" /\ AllLowestBuckets(metrics)) =>
        metrics.quality_score = 20

(***************************************************************************)
(* C2 (amended): the range of the score is exactly [25,100]: no input      *)
(* scores below 25 or above 100, the four minimum buckets 5+5+10+5 sum to  *)
(* 25, attained by every input with all four terms in the lowest bucket,   *)
(* and 100 is attained by every input with all four in the highest.        *)
(***************************************************************************)
C2_RangeIs25To100 ==
    metrics.kind = "metrics" =>
        /\ metrics.quality_score \in 25..100
        /\ AllLowestBuckets(metrics) => metrics.quality_score = 25
        /\ AllHighestBuckets(metrics) => metrics.quality_score = 100

C2_Witness ==
    /\ metrics.kind = "metrics"
    /\ AllLowestBuckets(metrics)
    /\ metrics.quality_score = 25

(***************************************************************************)
(* analyze_audio_file on a decoded buffer                                  *)
(* (audio_quality_analyzer.py lines 37-199).                               *)
(*                                                                         *)
(* A file is [path, decodable, num_samples, sample_rate, rms, hpss,        *)
(* frame_energy, core]: its path, whether librosa.load succeeds, len(y),   *)
(* sr, the series librosa.feature.rms returns, the outcome of              *)
(* librosa.effects.hpss, the per-frame energies np.sum(frames ** 2,        *)
(* axis=0), and the duration of the region librosa.effects.trim keeps.     *)
(***************************************************************************)
frame_length == 2048

hop_length == 512

None == [kind |-> "None"]

\* librosa.util.frame(y, frame_length, hop_length): the number of frames;
\* it raises ParameterError when len(y) < frame_length.
FrameRaises(num_samples) == num_samples < frame_length

NumFramesCentred(num_samples) == 1 + num_samples \div hop_length

NumFrames(num_samples) ==
    IF num_samples < frame_length THEN 0
    ELSE (num_samples - frame_length) \div hop_length + 1

NumRmsFramesUncentred(num_samples) ==
    IF num_samples < frame_length THEN 0
    ELSE (num_samples - frame_length) \div hop_length + 1

\* librosa.feature.rms(y=y) centres its frames (the buffer is padded by
\* frame_length // 2 on both sides): 1 + len(y) // hop_length values.
NumRmsFrames(num_samples) == 1 + num_samples \div hop_length

\* Ascending insertion sort of a sequence of integers (np.percentile sorts).
RECURSIVE InsertInt(_, _)
InsertInt(x, s) ==
    IF s = <<>> THEN <<x>>
    ELSE IF x <= Head(s) THEN <<x>> \o s
    ELSE <<Head(s)>> \o InsertInt(x, Tail(s))

RECURSIVE SortInts(_)
SortInts(s) == IF s = <<>> THEN <<>> ELSE InsertInt(Head(s), SortInts(Tail(s)))

\* np.percentile(a, q), linear interpolation between the two closest ranks:
\* position q/100 * (N-1) in the sorted series.
Percentile(a, q) ==
    LET sorted == SortInts(a)
        pos    == q * (Len(a) - 1)
        lo     == pos \div 100 + 1
        rem    == pos % 100
        hi     == IF rem = 0 THEN lo ELSE lo + 1
    IN  Norm(<<100 * sorted[lo] + rem * (sorted[hi] - sorted[lo]), 100>>)

RECURSIVE SumSeq(_)
SumSeq(s) == IF s = <<>> THEN 0 ELSE Head(s) + SumSeq(Tail(s))

\* Quality Layer 2 (lines 84-92): noise floor = 10th percentile of rms,
\* speech_energy = rms[rms > 2 * floor], snr = mean(speech) / (floor + 1e-10),
\* or 0.0 when no frame is above.  The rms levels are small integers, so
\* the 1e-10 changes no bucket unless the floor is 0; the quotient is then
\* mean * 10^10, kept as <<mean, 0>>, which compares above every threshold.
SnrEstimate(rms) ==
    LET energy_threshold == Percentile(rms, 10)
        IsSpeech(e)      == RGt(Rat(e, 1), Rat(2 * energy_threshold[1], energy_threshold[2]))
        speech_energy    == SelectSeq(rms, IsSpeech)
        mean             == Norm(<<SumSeq(speech_energy), Len(speech_energy)>>)
    IN  IF Len(speech_energy) > 0
        THEN IF energy_threshold[1] = 0 THEN <<mean[1], 0>>
             ELSE RDiv(mean, energy_threshold)
        ELSE Rat(0, 1)

\* Quality Layer 4 (lines 108-116): hpss, or 1.0 when it raises.
HarmonicNoiseRatio(hpss) == IF hpss.ok THEN hpss.ratio ELSE Rat(1, 1)

ArgmaxLast(b) == (CHOOSE i \in 1..Len(b) : b[i] /\ \A j \in (i + 1)..Len(b) : ~b[j]) - 1

\* np.argmax(speech_frames): the 0-based index of the first True.
ArgmaxFirst(b) == (CHOOSE i \in 1..Len(b) : b[i] /\ \A j \in 1..(i - 1) : ~b[j]) - 1

Reverse(s) == [i \in 1..Len(s) |-> s[Len(s) + 1 - i]]

\* Quality Layer 5 (lines 121-139): threshold = 20th percentile of the frame
\* energies, speech_frames = frame_energy > threshold, and effective
\* duration and silence ratio from the first and last speech frame.
SilenceMetrics(a) ==
    LET duration         == Norm(<<a.num_samples, a.sample_rate>>)
        frame_energy     == a.frame_energy
        energy_threshold == Percentile(frame_energy, 20)
        speech_frames    == [i \in 1..Len(frame_energy) |->
                                RGt(Rat(frame_energy[i], 1), energy_threshold)]
        any              == \E i \in 1..Len(speech_frames) : speech_frames[i]
        speech_start     == Norm(<<ArgmaxFirst(speech_frames) * hop_length, a.sample_rate>>)
        speech_end       == Norm(<<(Len(speech_frames) - ArgmaxFirst(Reverse(speech_frames)))
                                      * hop_length, a.sample_rate>>)
        effective_duration == RSub(speech_end, speech_start)
    IN  IF any
        THEN [effective_duration |-> effective_duration,
              silence_ratio      |-> RSub(Rat(1, 1), RDiv(effective_duration, duration))]
        ELSE [effective_duration |-> Rat(0, 1),
              silence_ratio      |-> Rat(1, 1)]

\* The whole of analyze_audio_file: every exception raised inside the outer
\* try (lines 41-193) is caught at line 195 and turns into `return None`.
analyze_audio_file(a) ==
    IF ~a.decodable THEN None
    ELSE IF FrameRaises(a.num_samples) THEN None
    ELSE LET sm == SilenceMetrics(a)
         IN  WithQualityScore(
                 [duration             |-> Norm(<<a.num_samples, a.sample_rate>>),
                  snr_estimate         |-> SnrEstimate(a.rms),
                  harmonic_noise_ratio |-> HarmonicNoiseRatio(a.hpss),
                  effective_duration   |-> sm.effective_duration,
                  silence_ratio        |-> sm.silence_ratio,
                  file                 |-> a.path,
                  filename             |-> PathName(a.path)])

(***************************************************************************)
(* SpecAnalyze: analyze_audio_file applied to one decoded buffer.          *)
(* Sample rates are low so that a handful of frames spans every duration   *)
(* bucket (2560 samples at 256 Hz are 10 s).                               *)
(***************************************************************************)
MaxEnergy == 2

SampleCounts == {0, 1000, 2047, 2048, 2560, 2600, 3072, 4096}

SampleRates == {256, 1024}

\* rms series: `quiet` frames at level lo, then frames at level hi.
RmsSeries(num_samples) ==
    {[i \in 1..NumRmsFrames(num_samples) |-> IF i <= quiet THEN lh[1] ELSE lh[2]] :
        quiet \in 0..2, lh \in {<<0, 0>>, <<0, 1>>, <<1, 3>>, <<1, 30>>}}

HpssOutcomes ==
    {[ok |-> FALSE, ratio |-> Rat(0, 1)],
     [ok |-> TRUE, ratio |-> Rat(0, 1)],
     [ok |-> TRUE, ratio |-> Rat(5, 2)]}

AudioFile(path, dec, n, sr, rms, hpss, fe, core) ==
    [kind         |-> "file",
     path         |-> path,
     decodable    |-> dec,
     num_samples  |-> n,
     sample_rate  |-> sr,
     rms          |-> rms,
     hpss         |-> hpss,
     frame_energy |-> fe,
     core         |-> core]

AudioBuffer(dec, n, sr, rms, hpss, fe) ==
    [kind         |-> "file",
     path         |-> FilePath("audio_samples", "buffer", ".wav"),
     core         |-> Norm(<<n, sr>>),
     decodable    |-> dec,
     num_samples  |-> n,
     sample_rate  |-> sr,
     rms          |-> rms,
     hpss         |-> hpss,
     frame_energy |-> fe]

InitAnalyze ==
    /\ CorpusIdle
    /\ RefineIdle
    /\ StageIdle
    /\ metrics = [kind |-> "pending"]
    /\ \/ \E n \in SampleCounts, sr \in SampleRates, hpss \in HpssOutcomes :
             \E rms \in RmsSeries(n), fe \in [1..NumFrames(n) -> 0..MaxEnergy] :
                 audio = AudioBuffer(TRUE, n, sr, rms, hpss, fe)
       \/ \E sr \in SampleRates :
             audio = AudioBuffer(FALSE, 0, sr, <<0>>, [ok |-> FALSE, ratio |-> Rat(0, 1)], <<>>)

AnalyzeAudioFile ==
    /\ metrics.kind = "pending"
    /\ metrics' = analyze_audio_file(audio)
    /\ UNCHANGED <<audio, corpusVars, refineVars, stageVars>>

NextAnalyze == AnalyzeAudioFile

SpecAnalyze == InitAnalyze /\ [][NextAnalyze]_vars

(***************************************************************************)
(* C5: degenerate input never makes the analysis fail: for a decoded       *)
(* buffer with fewer samples than frame_length, an all-zero buffer or a    *)
(* zero-duration buffer, analyze_audio_file returns a record with the      *)
(* sentinel values (snr 0.0 or harmonic ratio 1.0, effective duration 0,   *)
(* silence ratio 1.0) and a quality_score.                                 *)
(***************************************************************************)
AllZero(a) ==
    /\ \A i \in 1..Len(a.rms) : a.rms[i] = 0
    /\ \A i \in 1..Len(a.frame_energy) : a.frame_energy[i] = 0

Degenerate(a) ==
    \/ a.num_samples < frame_length
    \/ a.num_samples = 0
    \/ AllZero(a)

C5_DegenerateStillScored ==
    (metrics.kind # "pending" /\ audio.decodable /\ Degenerate(audio)) =>
        /\ metrics.kind = "metrics"
        /\ metrics.effective_duration = Rat(0, 1)
        /\ metrics.silence_ratio = Rat(1, 1)
        /\ metrics.quality_score \in 20..100

\* The analysis has returned a record for a buffer in which at least one
\* frame's energy exceeds the 20th-percentile threshold.
SpeechFrames ==
    {i \in 1..Len(audio.frame_energy) :
        RGt(Rat(audio.frame_energy[i], 1), Percentile(audio.frame_energy, 20))}

HasSpeech ==
    /\ metrics.kind = "metrics"
    /\ audio.frame_energy # <<>>
    /\ SpeechFrames # {}

\* 0-based indices of the first and the last frame above the threshold.
first_speech_frame_index ==
    (CHOOSE m \in SpeechFrames : \A x \in SpeechFrames : m <= x) - 1

last_speech_frame_index ==
    (CHOOSE m \in SpeechFrames : \A x \in SpeechFrames : x <= m) - 1

TotalDuration == Norm(<<audio.num_samples, audio.sample_rate>>)

\* C22 (as stated): when at least one frame's energy exceeds the
\* 20th-percentile threshold, effective_duration = (last_speech_frame_index
\* - first_speech_frame_index) x hop_length / sample_rate and silence_ratio
\* = 1 - effective_duration / total_duration.
C22_EffectiveDurationLastMinusFirst ==
    HasSpeech =>
        /\ metrics.effective_duration =
              Norm(<<(last_speech_frame_index - first_speech_frame_index) * hop_length,
                     audio.sample_rate>>)
        /\ metrics.silence_ratio =
              RSub(Rat(1, 1), RDiv(metrics.effective_duration, TotalDuration))

\* C22 (amended): when at least one frame's energy exceeds the
\* 20th-percentile threshold, effective_duration counts the last speech
\* frame too: (last_speech_frame_index + 1 - first_speech_frame_index) x
\* hop_length / sample_rate, and silence_ratio = 1 - effective_duration /
\* total_duration.
C22_EffectiveDurationThroughLastFrame ==
    HasSpeech =>
        /\ metrics.effective_duration =
              Norm(<<(last_speech_frame_index + 1 - first_speech_frame_index) * hop_length,
                     audio.sample_rate>>)
        /\ metrics.silence_ratio =
              RSub(Rat(1, 1), RDiv(metrics.effective_duration, TotalDuration))

\* Speech starts after the first frame and ends before the last one.
C22_Witness ==
    /\ HasSpeech
    /\ first_speech_frame_index > 0
    /\ last_speech_frame_index > first_speech_frame_index
    /\ last_speech_frame_index < Len(audio.frame_energy) - 1

\* C25: without any clamping, silence_ratio always lies in [0, 1]: for every
\* sample_count >= 2048 and every set of speech frames, effective_duration
\* never exceeds the total duration sample_count / sample_rate and is never
\* negative.
C25_SilenceRatioInUnitInterval ==
    (metrics.kind = "metrics" /\ audio.num_samples >= frame_length) =>
        /\ RGe(metrics.effective_duration, Rat(0, 1))
        /\ RLe(metrics.effective_duration, TotalDuration)
        /\ RGe(metrics.silence_ratio, Rat(0, 1))
        /\ RLe(metrics.silence_ratio, Rat(1, 1))

\* Every frame but one in the middle is a speech frame: the effective
\* duration spans all the frames of the buffer.
C25_Witness ==
    /\ HasSpeech
    /\ first_speech_frame_index = 0
    /\ last_speech_frame_index = Len(audio.frame_energy) - 1
    /\ Len(audio.frame_energy) >= 3
    /\ RLt(metrics.silence_ratio, Rat(1, 2))

(***************************************************************************)
(* analyze_all_audio and filter_high_quality                               *)
(* (audio_quality_analyzer.py lines 201-273).                              *)
(*                                                                         *)
(* audio_dir is [exists, case_insensitive, entries]: whether the directory *)
(* exists, whether Path.glob matches names without regard to case (the     *)
(* Windows path flavour), and its files in the order the operating system  *)
(* enumerates them.  filtered records, beside the list returned, the       *)
(* arguments of the call and the number of analyze_all_audio calls made    *)
(* before it.                                                              *)
(***************************************************************************)
audio_extensions == <<".wav", ".mp3", ".m4a", ".flac", ".ogg">>

\* ext.upper()
Upper(ext) ==
    CASE ext = ".wav" -> ".WAV"
      [] ext = ".mp3" -> ".MP3"
      [] ext = ".m4a" -> ".M4A"
      [] ext = ".flac" -> ".FLAC"
      [] ext = ".ogg" -> ".OGG"
      [] OTHER -> ext

\* self.audio_dir.glob(f"*{ext}"): the entries whose name ends in ext, in
\* enumeration order.
Glob(dir, ext) ==
    LET Matches(f) == IF dir.case_insensitive
                      THEN Upper(f.path.ext) = Upper(ext)
                      ELSE f.path.ext = ext
    IN  SelectSeq(dir.entries, Matches)

\* Lines 213-217: for each extension, its matches and then those of its
\* upper-case form.
RECURSIVE FindAudioFiles(_, _)
FindAudioFiles(dir, exts) ==
    IF exts = <<>> THEN <<>>
    ELSE Glob(dir, Head(exts)) \o Glob(dir, Upper(Head(exts)))
         \o FindAudioFiles(dir, Tail(exts))

\* Lines 222-228 with a break in place of the skip (a mutant).
RECURSIVE CollectUntilFailure(_)
CollectUntilFailure(files) ==
    IF files = <<>> THEN <<>>
    ELSE LET m == analyze_audio_file(Head(files))
         IN  IF m # None THEN <<m>> \o CollectUntilFailure(Tail(files))
             ELSE <<>>

\* Lines 222-228: the records appended, in the order of audio_files; a file
\* whose analysis returned None appends nothing.
RECURSIVE CollectMetrics(_)
CollectMetrics(files) ==
    IF files = <<>> THEN <<>>
    ELSE LET m == analyze_audio_file(Head(files))
         IN  IF m # None THEN <<m>> \o CollectMetrics(Tail(files))
             ELSE CollectMetrics(Tail(files))

\* list.sort(key=lambda x: x['quality_score'], reverse=True).  CPython
\* reverses the list, sorts it ascending with a stable sort (an element goes
\* after the elements of equal key already placed), and reverses it again.
RECURSIVE InsertByScore(_, _)
InsertByScore(x, s) ==
    IF s = <<>> THEN <<x>>
    ELSE IF x.quality_score < Head(s).quality_score THEN <<x>> \o s
    ELSE <<Head(s)>> \o InsertByScore(x, Tail(s))

RECURSIVE SortAscendingStable(_)
SortAscendingStable(s) ==
    IF s = <<>> THEN <<>>
    ELSE InsertByScore(s[Len(s)], SortAscendingStable(SubSeq(s, 1, Len(s) - 1)))

\* sorted(...)[::-1] in place of sort(reverse=True) (a mutant).
SortThenReverse(s) == Reverse(SortAscendingStable(s))

\* One bubble pass in place of a sort (a mutant).
RECURSIVE BubblePass(_)
BubblePass(s) ==
    IF Len(s) < 2 THEN s
    ELSE IF s[1].quality_score < s[2].quality_score
         THEN <<s[2]>> \o BubblePass(<<s[1]>> \o SubSeq(s, 3, Len(s)))
         ELSE <<s[1]>> \o BubblePass(Tail(s))

SortByScoreDescending(s) == Reverse(SortAscendingStable(Reverse(s)))

\* The predicate of filter_high_quality with a strict score bound (a mutant).
PassesFilterStrict(r, min_score, min_duration, max_silence) ==
    /\ r.quality_score > min_score
    /\ RGe(r.duration, min_duration)
    /\ RLe(r.silence_ratio, max_silence)

\* Lines 260-262.
PassesFilter(r, min_score, min_duration, max_silence) ==
    /\ r.quality_score >= min_score
    /\ RGe(r.duration, min_duration)
    /\ RLe(r.silence_ratio, max_silence)

\* Lines 258-263: filtered = []; for result in self.results: ... append.
RECURSIVE FilterLoop(_, _, _, _, _)
FilterLoop(acc, rest, min_score, min_duration, max_silence) ==
    IF rest = <<>> THEN acc
    ELSE FilterLoop(
             IF PassesFilter(Head(rest), min_score, min_duration, max_silence)
             THEN Append(acc, Head(rest)) ELSE acc,
             Tail(rest), min_score, min_duration, max_silence)

(***************************************************************************)
(* SpecCorpus: one analyzer over a directory of up to MaxFiles files,      *)
(* analyze_all_audio called up to MaxCalls times and filter_high_quality   *)
(* at any time.                                                            *)
(***************************************************************************)
MaxFiles == 3

MaxCalls == 2

\* 5 s, snr 8, harmonic ratio 0.5, silence ratio 0.4: scores 20+15+10+15.
Take(stem, ext) ==
    AudioFile(FilePath("audio_samples", stem, ext), TRUE, 5120, 1024,
              <<1, 1, 8, 8, 8, 8, 8, 8, 8, 8, 8>>, [ok |-> TRUE, ratio |-> Rat(1, 2)],
              <<0, 2, 1, 2, 2, 2, 2>>, Rat(3, 1))

\* 16 s, snr 30, harmonic ratio 2.5, silence ratio 0.375: scores 25+25+25+15.
Clean ==
    AudioFile(FilePath("audio_samples", "clean", ".wav"), TRUE, 4096, 256,
              <<1, 1, 30, 30, 30, 30, 30, 30, 30>>, [ok |-> TRUE, ratio |-> Rat(5, 2)],
              <<2, 1, 2, 2, 2>>, Rat(16, 1))

\* 16 s, snr 0, harmonic ratio 2.5, silence ratio 0.5: scores 25+5+25+5.
Noisy ==
    AudioFile(FilePath("audio_samples", "noisy", ".WAV"), TRUE, 4096, 256,
              <<1, 1, 1, 1, 1, 1, 1, 1, 1>>, [ok |-> TRUE, ratio |-> Rat(5, 2)],
              <<0, 1, 1, 1, 1>>, Rat(13, 1))

Corrupt ==
    AudioFile(FilePath("audio_samples", "corrupt", ".wav"), FALSE, 0, 1024,
              <<0>>, [ok |-> FALSE, ratio |-> Rat(0, 1)], <<>>, Rat(0, 1))

Short ==
    AudioFile(FilePath("audio_samples", "short", ".ogg"), TRUE, 1000, 1024,
              <<1, 1>>, [ok |-> TRUE, ratio |-> Rat(1, 2)], <<>>, Rat(1, 2))

\* 3 s, snr 0, hpss raising (1.0), no speech frame (silence ratio 1.0):
\* scores 15+5+10+5.
Hum ==
    AudioFile(FilePath("audio_samples", "hum", ".wav"), TRUE, 3072, 1024,
              <<1, 1, 1, 1, 1, 1, 1>>, [ok |-> FALSE, ratio |-> Rat(0, 1)],
              <<1, 1, 1>>, Rat(3, 1))

CorpusFiles ==
    {Take("take1", ".wav"), Take("take1", ".mp3"), Clean, Noisy, Corrupt, Short}

\* Files of one extension: on a case-sensitive file system glob lists them
\* in enumeration order, so every order of collection is some directory.
RankFiles == {Take("take1", ".wav"), Take("take2", ".wav"), Clean, Hum}

Injective(s) == \A i, j \in DOMAIN s : s[i] = s[j] => i = j

\* The sequences of up to n distinct members of S.
DistinctSeqs(S, n) == UNION {{s \in [1..k -> S] : Injective(s)} : k \in 0..n}

MinScores == {60, 61}

MinDurations == {Rat(5, 1), Rat(10, 1)}

MaxSilences == {Rat(2, 5), Rat(1, 2)}

InitCorpus ==
    /\ AnalysisIdle
    /\ RefineIdle
    /\ StageIdle
    /\ \/ audio_dir = [exists |-> FALSE, case_insensitive |-> FALSE, entries |-> <<>>]
       \/ \E ci \in BOOLEAN, entries \in DistinctSeqs(CorpusFiles, MaxFiles) :
             audio_dir = [exists |-> TRUE, case_insensitive |-> ci, entries |-> entries]
    /\ audio_files = <<>>
    /\ results = <<>>
    /\ prior = <<>>
    /\ collected = <<>>
    /\ filtered = [kind |-> "none"]
    /\ calls = 0

\* analyze_all_audio, lines 201-244.
AnalyzeAllAudio ==
    /\ calls < MaxCalls
    /\ calls' = calls + 1
    /\ IF ~audio_dir.exists
       THEN UNCHANGED <<audio_files, results, prior, collected>>
       ELSE LET found    == FindAudioFiles(audio_dir, audio_extensions)
                appended == CollectMetrics(found)
            IN  /\ audio_files' = found
                /\ prior' = results
                /\ collected' = appended
                /\ results' = SortByScoreDescending(results \o appended)
    /\ UNCHANGED <<audio_dir, filtered, analysisVars, refineVars, stageVars>>

\* self.results after filter_high_quality has built the list `kept` from
\* it: the loop of lines 258-263 only reads self.results and appends to a
\* list of its own.
ResultsFilteredInPlace(rs, kept) == kept

ResultsAfterFilter(rs, kept) == rs

\* filter_high_quality, lines 246-273.
FilterHighQuality ==
    /\ \E min_score \in MinScores, min_duration \in MinDurations,
          max_silence \in MaxSilences :
          LET kept == FilterLoop(<<>>, results, min_score, min_duration, max_silence)
          IN  /\ filtered' = [kind         |-> "list",
                              items        |-> kept,
                              min_score    |-> min_score,
                              min_duration |-> min_duration,
                              max_silence  |-> max_silence,
                              at_call      |-> calls]
              /\ results' = ResultsAfterFilter(results, kept)
    /\ UNCHANGED <<audio_dir, audio_files, prior, collected, calls,
                   analysisVars, refineVars, stageVars>>

NextCorpus == AnalyzeAllAudio \/ FilterHighQuality

SpecCorpus == InitCorpus /\ [][NextCorpus]_vars

(***************************************************************************)
(* SpecRank: analyze_all_audio over a directory of .wav files that all     *)
(* analyse, enumerated in any order.                                       *)
(***************************************************************************)
InitRank ==
    /\ AnalysisIdle
    /\ RefineIdle
    /\ StageIdle
    /\ \E entries \in DistinctSeqs(RankFiles, MaxFiles) :
          audio_dir = [exists |-> TRUE, case_insensitive |-> FALSE, entries |-> entries]
    /\ audio_files = <<>>
    /\ results = <<>>
    /\ prior = <<>>
    /\ collected = <<>>
    /\ filtered = [kind |-> "none"]
    /\ calls = 0

NextRank == AnalyzeAllAudio

SpecRank == InitRank /\ [][NextRank]_vars

\* The number of records that results holds for the file f.
RecordsOf(f) == Cardinality({i \in DOMAIN results : results[i].file = f.path})

(***************************************************************************)
(* C26: after any number of analyze_all_audio calls on the same analyzer   *)
(* over an unchanged directory, results holds exactly one record per       *)
(* successfully analyzed file: a record is created once per file and never *)
(* duplicated.                                                             *)
(***************************************************************************)
C26_OneRecordPerFile ==
    (calls >= 1 /\ audio_dir.exists) =>
        \A n \in DOMAIN audio_dir.entries :
            LET f == audio_dir.entries[n]
            IN  RecordsOf(f) = IF analyze_audio_file(f) # None THEN 1 ELSE 0

(***************************************************************************)
(* C6: in analyze_all_audio a file whose analysis fails contributes no     *)
(* record and does not stop the scan: after a call, no record in results   *)
(* is of a failed file, every file that analysed has its record, every     *)
(* record is of a file found, and the call appended one record per         *)
(* successful entry of audio_files.                                        *)
(***************************************************************************)
AnalysisFails(f) == ~f.decodable \/ f.num_samples < frame_length

Scanned == calls > 0 /\ audio_dir.exists

C6_FailedFilesSkipped ==
    Scanned =>
        /\ \A i \in DOMAIN audio_files :
              IF AnalysisFails(audio_files[i])
              THEN \A k \in DOMAIN results : results[k].file # audio_files[i].path
              ELSE \E k \in DOMAIN results :
                      /\ results[k].file = audio_files[i].path
                      /\ results[k].kind = "metrics"
        /\ \A k \in DOMAIN results :
              \E i \in DOMAIN audio_files :
                  /\ results[k].file = audio_files[i].path
                  /\ ~AnalysisFails(audio_files[i])
        /\ Len(collected) =
              Cardinality({i \in DOMAIN audio_files : ~AnalysisFails(audio_files[i])})
        /\ Len(results) = Len(prior) + Len(collected)

C6_Witness ==
    /\ Scanned
    /\ \E i, j \in DOMAIN audio_files :
          /\ i < j
          /\ ~audio_files[i].decodable
          /\ ~AnalysisFails(audio_files[j])
          /\ \E k \in DOMAIN results : results[k].file = audio_files[j].path

(***************************************************************************)
(* C7: after analyze_all_audio, results is ordered by quality_score        *)
(* descending and the sort is stable: the records of any one score stand   *)
(* in results in the order in which they stood in the list before the      *)
(* sort (the earlier results followed by the records appended).            *)
(***************************************************************************)
IsDescending(s) ==
    \A i, j \in DOMAIN s : i < j => s[i].quality_score >= s[j].quality_score

WithScore(s, q) ==
    LET Has(r) == r.quality_score = q
    IN  SelectSeq(s, Has)

C7_SortedStable ==
    Scanned =>
        /\ IsDescending(results)
        /\ \A q \in 0..100 :
              WithScore(results, q) = WithScore(prior \o collected, q)

C7_Witness ==
    /\ Scanned
    /\ results # prior \o collected
    /\ \E i, j \in DOMAIN results :
          /\ i < j
          /\ results[i].quality_score = results[j].quality_score
          /\ results[i].filename # results[j].filename

(***************************************************************************)
(* C8: filter_high_quality returns exactly the records of results with     *)
(* quality_score >= min_score, duration >= min_duration and                *)
(* silence_ratio <= max_silence, all bounds inclusive, in the order they   *)
(* have in results; a ranked input gives a ranked output.                  *)
(***************************************************************************)
Kept(f) ==
    {i \in DOMAIN results :
        /\ results[i].quality_score >= f.min_score
        /\ RGe(results[i].duration, f.min_duration)
        /\ RLe(results[i].silence_ratio, f.max_silence)}

\* The k-th smallest member of a set of indices.
KthOf(S, k) == CHOOSE i \in S : Cardinality({j \in S : j <= i}) = k

FilterCurrent == filtered.kind = "list" /\ filtered.at_call = calls

C8_FilterExact ==
    FilterCurrent =>
        /\ Len(filtered.items) = Cardinality(Kept(filtered))
        /\ \A k \in DOMAIN filtered.items :
              filtered.items[k] = results[KthOf(Kept(filtered), k)]
        /\ IsDescending(results) => IsDescending(filtered.items)

C8_Witness ==
    /\ FilterCurrent
    /\ filtered.min_score = 60
    /\ filtered.min_duration = Rat(5, 1)
    /\ filtered.max_silence = Rat(2, 5)
    /\ Len(filtered.items) >= 2
    /\ Len(filtered.items) < Len(results)
    /\ \E k \in DOMAIN filtered.items :
          /\ filtered.items[k].quality_score = 60
          /\ REq(filtered.items[k].duration, Rat(5, 1))
          /\ REq(filtered.items[k].silence_ratio, Rat(2, 5))

(***************************************************************************)
(* C18: filter_high_quality does not mutate its input: a step that         *)
(* returns a list leaves results with the same records in the same order.  *)
(***************************************************************************)
C18_FilterLeavesResults ==
    [][(filtered' # filtered) => (results' = results)]_vars

\* A filter has dropped at least two records, and results has all the
\* records the analysis calls put there.
C18_Witness ==
    /\ FilterCurrent
    /\ Len(filtered.items) + 2 <= Len(results)
    /\ Len(results) = Len(prior) + Len(collected)

(***************************************************************************)
(* C9 (as stated): the ranked list is independent of the order in which    *)
(* the records were collected: appending the same records in any other     *)
(* order and sorting gives the very list that results holds.               *)
(***************************************************************************)
Reordered(s, p) == [i \in 1..Len(s) |-> s[p[i]]]

Rankings ==
    {SortByScoreDescending(prior \o Reordered(collected, p)) :
        p \in Permutations(1..Len(collected))}

C9_OrderIndependent == Scanned => \A r \in Rankings : r = results

(***************************************************************************)
(* C9 (amended): the ranked list is independent of the collection order    *)
(* up to the order of records of equal quality_score: in whatever order    *)
(* the same records are appended, the sorted list has the same score at    *)
(* every position and holds every record the same number of times; only    *)
(* records of equal score may change places.                               *)
(***************************************************************************)
Count(s, x) == Cardinality({i \in DOMAIN s : s[i] = x})

C9_OrderIndependentUpToTies ==
    Scanned =>
        \A r \in Rankings :
            /\ Len(r) = Len(results)
            /\ \A i \in DOMAIN results :
                  /\ r[i].quality_score = results[i].quality_score
                  /\ Count(r, results[i]) = Count(results, results[i])

C9_Witness ==
    /\ Scanned
    /\ Len(collected) >= 3
    /\ \E r \in Rankings : r # results

(***************************************************************************)
(* Refinement: AudioRefinementProcessor (audio_refinement_processor.py).   *)
(*                                                                         *)
(* fs maps a path (a string) to what the file holds.  A file holds either  *)
(* decodable audio (duration in whole seconds, sample rate, seconds of     *)
(* leading and trailing silence, the stages applied so far, and the input  *)
(* file the samples came from) or bytes that librosa.load cannot decode.   *)
(***************************************************************************)
input_dir == "audio_samples"

output_dir == "refined_audio"

target_sr == 22050

target_duration == 15

Audio(origin, duration, sample_rate, edge) ==
    [decodable   |-> TRUE,
     origin      |-> origin,
     duration    |-> duration,
     sample_rate |-> sample_rate,
     edge        |-> edge,
     applied     |-> <<>>]

\* What a write that fails half-way leaves behind, and what an undecodable
\* input file holds.
Truncated(origin) ==
    [decodable   |-> FALSE,
     origin      |-> origin,
     duration    |-> 0,
     sample_rate |-> 0,
     edge        |-> 0,
     applied     |-> <<>>]

Exists(disk, p) == p \in DOMAIN disk

\* librosa.load(str(path), sr=None, mono=True) returns instead of raising.
Loadable(disk, p) == Exists(disk, p) /\ disk[p].decodable

WriteFile(disk, p, c) ==
    [q \in DOMAIN disk \cup {p} |-> IF q = p THEN c ELSE disk[q]]

Unlink(disk, p) == [q \in DOMAIN disk \ {p} |-> disk[q]]

\* The stage output names of process_audio_file, keyed by the input's stem
\* alone (input_path.stem): the extension and the directory play no part.
StagePrefix == <<"stage1_norm_", "stage2_trimmed_", "stage3_denoised_", "stage4_resampled_">>

StagePathNoStem(n, input_path) ==
    output_dir \o "/" \o StagePrefix[n] \o ".wav"

StagePath(n, input_path) ==
    output_dir \o "/" \o StagePrefix[n] \o input_path.stem \o ".wav"

FinalPath(output_name) == output_dir \o "/" \o output_name

DefaultOutputName(input_path) == "refined_" \o input_path.stem \o ".wav"

TopOutputName(i, input_path) ==
    "refined_top" \o ToString(i) \o "_" \o input_path.stem \o ".wav"

\* What each stage writes for the audio it loaded.
Normalized(c) == [c EXCEPT !.applied = Append(@, "normalize")]

Trimmed(c) ==
    [c EXCEPT !.duration = @ - c.edge, !.edge = 0, !.applied = Append(@, "trim")]

Denoised(c) == [c EXCEPT !.applied = Append(@, "denoise")]

Resampled(c) ==
    [c EXCEPT !.sample_rate = target_sr, !.applied = Append(@, "resample")]

\* Stage 5 copies the file when it is short enough, else cuts target_duration.
BestSegment(c) ==
    IF c.duration <= target_duration
    THEN c
    ELSE [c EXCEPT !.duration = target_duration, !.edge = 0,
                   !.applied = Append(@, "segment")]

Transform(n, c) ==
    CASE n = 1 -> Normalized(c)
      [] n = 2 -> Trimmed(c)
      [] n = 3 -> Denoised(c)
      [] n = 4 -> Resampled(c)
      [] n = 5 -> BestSegment(c)

\* The ways the try block of a stage can end: it runs through; the
\* processing raises; the write raises before the file is created; the write
\* raises after it has created the file.
Faults == {"none", "internal", "write_none", "write_partial"}

\* The failures explored: every one where a single call runs at a time; the
\* workers of the pool run on a disk and a library that do not fail, so a
\* stage of theirs fails only on what another worker did to its files.  In
\* a run of main() a call meets at most one failure of its own, inside a
\* stage; the stages after it fail only on what that failure left behind.
InjectedFaults ==
    IF batch.status = "pool" THEN {"none"}
    ELSE IF "caller" \in DOMAIN batch
    THEN IF \E k \in DOMAIN jobs : k = batch.i /\ ~jobs[k].success
         THEN {"none"} ELSE {"none", "internal"}
    ELSE Faults

\* The try block of stage n on input path src and output path dst: the disk
\* it leaves and whether it reached `return True`.
TryBody(n, disk, src, dst, fault) ==
    IF ~Loadable(disk, src) \/ fault \in {"internal", "write_none"}
    THEN [disk |-> disk, ok |-> FALSE, wrote |-> FALSE]
    ELSE IF fault = "write_partial"
    THEN [disk |-> WriteFile(disk, dst, Truncated(disk[src].origin)),
          ok |-> FALSE, wrote |-> TRUE]
    ELSE [disk |-> WriteFile(disk, dst, Transform(n, disk[src])),
          ok |-> TRUE, wrote |-> TRUE]

StageName == <<"stage1", "stage2", "stage3", "stage4", "stage5">>

StageInput(job, n) ==
    IF n = 1 THEN PathStr(job.input) ELSE StagePath(n - 1, job.input)

StageOutput(job, n) ==
    IF n = 5 THEN FinalPath(job.output_name) ELSE StagePath(n, job.input)

\* process_audio_file(input_path, output_name) up to `success = True`.
NewJob(input_path, output_name) ==
    [input       |-> input_path,
     output_name |-> output_name,
     pc          |-> "stage1",
     success     |-> TRUE,
     log         |-> <<>>,
     reads       |-> {},
     writes      |-> {},
     deletes     |-> {},
     result      |-> [kind |-> "none"]]

(***************************************************************************)
(* process_audio_file, one step per stage call.  jobs[k] is the k-th       *)
(* invocation; its pc is the statement it stands before.                   *)
(***************************************************************************)
\* The invocations that can take a step: the one call the loop of
\* process_high_quality_files is waiting for, or every worker's call.
Running ==
    IF batch.status = "running" THEN {k \in DOMAIN jobs : k = batch.i}
    ELSE IF batch.status = "pool" THEN DOMAIN jobs
    ELSE {}

\* Stage n of job k.  Stages 1, 2, 4 and 5 catch every exception and return
\* False.  The except branch of stage 3 copies its input to its output with
\* shutil.copy and returns False; the copy is outside any try, so when the
\* input does not exist or the copy cannot write, the exception leaves
\* stage 3 and process_audio_file.
RunStage(k, n, fault, copy_fault) ==
    LET job      == jobs[k]
        src      == StageInput(job, n)
        dst      == StageOutput(job, n)
        body     == TryBody(n, fs, src, dst, fault)
        fallback == n = 3 /\ ~body.ok
        raises   == fallback /\ (~Exists(body.disk, src) \/ copy_fault # "none")
        copies   == fallback /\ ~raises
        disk     == IF copies
                    THEN WriteFile(body.disk, dst, body.disk[src])
                    ELSE body.disk
        entry    == [stage    |-> n,
                     input    |-> src,
                     existed  |-> Exists(fs, src),
                     output   |-> dst,
                     ret      |-> body.ok,
                     fallback |-> copies,
                     raised   |-> raises]
    IN  /\ job.pc = StageName[n]
        /\ fs' = disk
        /\ UNCHANGED <<batch, analysisVars, corpusVars, stageVars>>
        /\ jobs' = [jobs EXCEPT ![k] =
                      [job EXCEPT
                         !.pc      = IF raises THEN "raised"
                                     ELSE IF n < 5 THEN StageName[n + 1]
                                     ELSE "cleanup",
                         !.success = @ /\ body.ok,
                         !.log     = Append(@, entry),
                         !.reads   = @ \cup {src},
                         !.writes  = @ \cup (IF body.wrote \/ copies THEN {dst} ELSE {})]]

stage_1_normalize_audio ==
    \E k \in Running, fault \in InjectedFaults : RunStage(k, 1, fault, "none")

stage_2_remove_silence ==
    \E k \in Running, fault \in InjectedFaults : RunStage(k, 2, fault, "none")

stage_3_noise_reduction ==
    \E k \in Running, fault \in InjectedFaults,
       copy_fault \in InjectedFaults \cap {"none", "write_none"} :
        RunStage(k, 3, fault, copy_fault)

stage_4_resample_optimal ==
    \E k \in Running, fault \in InjectedFaults : RunStage(k, 4, fault, "none")

stage_5_extract_best_segment ==
    \E k \in Running, fault \in InjectedFaults : RunStage(k, 5, fault, "none")

\* Lines 261-264: unlink every stage file that exists and is not the final.
StageFiles(job) == {StagePath(n, job.input) : n \in 1..4}

Leftovers(job, disk) ==
    {p \in StageFiles(job) : Exists(disk, p) /\ p # FinalPath(job.output_name)}

Cleanup ==
    \E k \in Running :
    LET job  == jobs[k]
        gone == Leftovers(job, fs)
    IN  /\ job.pc = "cleanup"
        /\ UNCHANGED <<batch, analysisVars, corpusVars, stageVars>>
        /\ fs' = [q \in DOMAIN fs \ gone |-> fs[q]]
        /\ jobs' = [jobs EXCEPT ![k] =
                      [job EXCEPT !.pc = "report", !.deletes = @ \cup gone]]

\* Line 266: `if success and final_path.exists()`.
FinalExists(job, disk) == Exists(disk, FinalPath(job.output_name))

ReportsSuccessIfFinalExists(job, disk) == FinalExists(job, disk)

ReportsSuccess(job, disk) == job.success /\ FinalExists(job, disk)

\* Lines 266-291: the value returned.  librosa.load of the final file is
\* outside any try.
Report ==
    \E k \in Running :
    LET job   == jobs[k]
        final == FinalPath(job.output_name)
        good  == ReportsSuccess(job, fs)
    IN  /\ job.pc = "report"
        /\ UNCHANGED <<fs, batch, analysisVars, corpusVars, stageVars>>
        /\ jobs' = [jobs EXCEPT ![k] =
                      IF good /\ ~fs[final].decodable
                      THEN [job EXCEPT !.pc = "raised", !.reads = @ \cup {final}]
                      ELSE IF good
                      THEN [job EXCEPT
                              !.pc     = "returned",
                              !.reads  = @ \cup {final},
                              !.result = [kind        |-> "result",
                                          success     |-> TRUE,
                                          input       |-> PathStr(job.input),
                                          output      |-> final,
                                          duration    |-> fs[final].duration,
                                          sample_rate |-> fs[final].sample_rate]]
                      ELSE [job EXCEPT
                              !.pc     = "returned",
                              !.result = [kind |-> "result", success |-> FALSE]]]

(***************************************************************************)
(* process_high_quality_files(quality_results, top_n): the loop over       *)
(* quality_results[:top_n].  batch.i is the loop counter (from 1).         *)
(***************************************************************************)
Min(a, b) == IF a <= b THEN a ELSE b

BatchSize == Min(batch.top_n, Len(batch.quality_results))

\* Line 304: the call of process_audio_file for entry i.
ProcessNext ==
    /\ batch.status = "running"
    /\ batch.i <= BatchSize
    /\ Len(jobs) < batch.i
    /\ jobs' = Append(jobs, NewJob(batch.quality_results[batch.i].file,
                                   TopOutputName(batch.i, batch.quality_results[batch.i].file)))
    /\ UNCHANGED <<fs, batch, analysisVars, corpusVars, stageVars>>

\* Lines 305-306: the call returned.
Collect ==
    /\ batch.status = "running"
    /\ Len(jobs) = batch.i
    /\ jobs[batch.i].pc = "returned"
    /\ batch' = [batch EXCEPT
                   !.processed = IF jobs[batch.i].result.success
                                 THEN Append(@, jobs[batch.i].result)
                                 ELSE @,
                   !.i = @ + 1]
    /\ UNCHANGED <<fs, jobs, analysisVars, corpusVars, stageVars>>

\* The call raised: nothing in process_high_quality_files catches it.
Propagate ==
    /\ batch.status = "running"
    /\ Len(jobs) = batch.i
    /\ jobs[batch.i].pc = "raised"
    /\ batch' = [batch EXCEPT !.status = "aborted"]
    /\ UNCHANGED <<fs, jobs, analysisVars, corpusVars, stageVars>>

\* Line 319: return processed.
BatchReturn ==
    /\ batch.status = "running"
    /\ batch.i > BatchSize
    /\ batch' = [batch EXCEPT !.status = "returned"]
    /\ UNCHANGED <<fs, jobs, analysisVars, corpusVars, stageVars>>

(***************************************************************************)
(* SpecRefine: one call of process_high_quality_files.                     *)
(***************************************************************************)
MaxBatch == 2

TopNs == {1, 5}

\* What the batch finds on disk: a 20 s and an 8 s recording, each with two
\* seconds of silence at its ends, and a file that does not decode.
RefineInputs ==
    {FilePath(input_dir, "take1", ".wav"),
     FilePath(input_dir, "take2", ".wav"),
     FilePath(input_dir, "corrupt", ".wav")}

InputContent(p) ==
    CASE p.stem = "corrupt" -> Truncated(PathStr(p))
      [] p.stem = "take1" -> Audio(PathStr(p), 20, 44100, 2)
      [] OTHER -> Audio(PathStr(p), 8, 22050, 2)

DiskOf(inputs) ==
    [q \in {PathStr(p) : p \in inputs} |->
        InputContent(CHOOSE p \in inputs : PathStr(p) = q)]

QualityResult(p) == [file |-> p, filename |-> PathName(p)]

QualityResults ==
    {s \in UNION {[1..n -> RefineInputs] : n \in 0..MaxBatch} : Injective(s)}

\* What the whole pipeline makes of an input.
Refined(c) == BestSegment(Resampled(Denoised(Trimmed(Normalized(c)))))

\* The final files an earlier call for the same recordings left in the
\* output directory.
EarlierRun ==
    LET done == {p \in RefineInputs : InputContent(p).decodable}
    IN  [q \in {FinalPath(TopOutputName(1, p)) : p \in done} |->
            Refined(InputContent(CHOOSE p \in done : FinalPath(TopOutputName(1, p)) = q))]

InitRefine ==
    /\ AnalysisIdle
    /\ CorpusIdle
    /\ StageIdle
    /\ \E earlier \in BOOLEAN :
          fs = IF earlier
               THEN EarlierRun @@ DiskOf(RefineInputs)
               ELSE DiskOf(RefineInputs)
    /\ jobs = <<>>
    /\ \E s \in QualityResults, top_n \in TopNs :
          batch = [status          |-> "running",
                   quality_results |-> [i \in DOMAIN s |-> QualityResult(s[i])],
                   top_n           |-> top_n,
                   i               |-> 1,
                   processed       |-> <<>>]

NextRefine ==
    \/ ProcessNext
    \/ stage_1_normalize_audio
    \/ stage_2_remove_silence
    \/ stage_3_noise_reduction
    \/ stage_4_resample_optimal
    \/ stage_5_extract_best_segment
    \/ Cleanup
    \/ Report
    \/ Collect
    \/ Propagate
    \/ BatchReturn

SpecRefine == InitRefine /\ [][NextRefine]_vars

\* Stage n of job k returned True / fell back to the pass-through copy.
StageOk(job, n) == Len(job.log) >= n /\ job.log[n].ret

FellBack(job) == Len(job.log) >= 3 /\ job.log[3].fallback

\* C3: a run in which stages 1, 2, 4 and 5 succeed and stage 3 falls back to
\* the pass-through copy is reported as successful, with its final file on
\* disk.
C3_FallbackRunSucceeds ==
    \A k \in DOMAIN jobs :
        ( /\ jobs[k].pc = "returned"
          /\ \A n \in {1, 2, 4, 5} : StageOk(jobs[k], n)
          /\ FellBack(jobs[k]) )
        => /\ Exists(fs, FinalPath(jobs[k].output_name))
           /\ jobs[k].result.success

\* C4: no failure while refining one file aborts the batch: no exception
\* leaves process_audio_file, the call of process_high_quality_files is never
\* cut short, and when it returns every one of the first top_n files has been
\* processed and has returned a result.
C4_FailureNeverAbortsBatch ==
    /\ \A k \in DOMAIN jobs : jobs[k].pc # "raised"
    /\ batch.status # "aborted"
    /\ batch.status = "returned" =>
          /\ Len(jobs) = BatchSize
          /\ \A k \in DOMAIN jobs : jobs[k].result.kind = "result"

\* process_audio_file has ended: it returned a result or an exception left it.
Ended(job) == job.pc \in {"returned", "raised"}

\* C19: process_audio_file invokes the five stages strictly in the order
\* 1, 2, 3, 4, 5, each exactly once, and stage k+1 reads exactly the path
\* that stage k was asked to write: every call that has ended has made the
\* five stage calls in that order, the first on the input path, each later
\* one on its predecessor's output path, the last one writing the final path.
C19_StagesInOrderOnce ==
    \A k \in DOMAIN jobs :
        Ended(jobs[k]) =>
            /\ Len(jobs[k].log) = 5
            /\ \A n \in 1..5 : jobs[k].log[n].stage = n
            /\ jobs[k].log[1].input = PathStr(jobs[k].input)
            /\ \A n \in 1..4 : jobs[k].log[n + 1].input = jobs[k].log[n].output
            /\ jobs[k].log[5].output = FinalPath(jobs[k].output_name)

\* Stage 3 of the call failed inside its try block although its input file
\* was there.
DenoiseFailedOnExistingInput(job) ==
    Len(job.log) >= 3 /\ ~job.log[3].ret /\ job.log[3].existed

\* C20: when stage 3 fails internally on an input that exists, its output
\* is an unmodified copy of its input, and stages 4 and 5 then run on that
\* copy: no exception leaves stage 3, the stage-3 path holds what the
\* stage-2 path holds when stage 4 is about to run, and the call ends with
\* stage 4 having read the stage-3 path and stage 5 the stage-4 path.
C20_FailedDenoiseCopiesAndContinues ==
    \A k \in DOMAIN jobs :
        DenoiseFailedOnExistingInput(jobs[k]) =>
            /\ ~jobs[k].log[3].raised
            /\ jobs[k].log[3].fallback
            /\ jobs[k].pc = "stage4" =>
                  /\ Exists(fs, jobs[k].log[3].output)
                  /\ fs[jobs[k].log[3].output] = fs[jobs[k].log[3].input]
            /\ Ended(jobs[k]) =>
                  /\ Len(jobs[k].log) = 5
                  /\ jobs[k].log[4].input = jobs[k].log[3].output
                  /\ jobs[k].log[5].input = jobs[k].log[4].output

\* The path of one of the four intermediate stage files of the call, other
\* than its final path.
Intermediates(job) ==
    {StagePath(n, job.input) : n \in 1..4} \ {FinalPath(job.output_name)}

\* C21: once process_audio_file has finished with a file, whatever the
\* outcome of each stage, none of that file's four intermediate stage files
\* (stage1_norm, stage2_trimmed, stage3_denoised, stage4_resampled) remains
\* in the output directory; only the final artifact may remain.
C21_NoIntermediateRemains ==
    \A k \in DOMAIN jobs :
        Ended(jobs[k]) => \A p \in Intermediates(jobs[k]) : ~Exists(fs, p)

\* C11: process_audio_file reports success only if the final stage produced
\* a persisted final file: whenever the result returned has success = True,
\* stage 5 returned True in this run and the final output path exists.
C11_SuccessMeansFinalPersisted ==
    \A k \in DOMAIN jobs :
        (jobs[k].result.kind = "result" /\ jobs[k].result.success)
        => /\ StageOk(jobs[k], 5)
           /\ FinalPath(jobs[k].output_name) \in jobs[k].writes
           /\ Exists(fs, FinalPath(jobs[k].output_name))

\* One call has returned success = True, and another has returned
\* success = False although a file stands at its final path.
C11_Witness ==
    \E j, k \in DOMAIN jobs :
        /\ jobs[j].pc = "returned" /\ jobs[j].result.success
        /\ jobs[k].pc = "returned" /\ ~jobs[k].result.success
        /\ FinalExists(jobs[k], fs)

(***************************************************************************)
(* SpecPool: process_audio_file called by NumWorkers workers at once, each *)
(* for an input file of its own, all on one output directory; the calls    *)
(* interleave statement by statement.  Every call uses the default output  *)
(* name.                                                                   *)
(***************************************************************************)
NumWorkers == 2

\* Two recordings of one stem, a third recording, and a file refined in an
\* earlier run that is refined again from the output directory.
PoolInputs ==
    {FilePath(input_dir, "take1", ".wav"),
     FilePath(input_dir, "take1", ".mp3"),
     FilePath(input_dir, "take2", ".wav"),
     FilePath(output_dir, "refined_take2", ".wav")}

InitPool ==
    /\ AnalysisIdle
    /\ CorpusIdle
    /\ StageIdle
    /\ fs = DiskOf(PoolInputs)
    /\ jobs = <<>>
    /\ batch = [status |-> "pool"]

\* A worker enters process_audio_file(input_path) for a file no other
\* worker has been given.
Submit ==
    \E p \in PoolInputs :
        /\ batch.status = "pool"
        /\ Len(jobs) < NumWorkers
        /\ \A k \in DOMAIN jobs : PathStr(jobs[k].input) # PathStr(p)
        /\ jobs' = Append(jobs, NewJob(p, DefaultOutputName(p)))
        /\ UNCHANGED <<fs, batch, analysisVars, corpusVars, stageVars>>

NextPool ==
    \/ Submit
    \/ stage_1_normalize_audio
    \/ stage_2_remove_silence
    \/ stage_3_noise_reduction
    \/ stage_4_resample_optimal
    \/ stage_5_extract_best_segment
    \/ Cleanup
    \/ Report

SpecPool == InitPool /\ [][NextPool]_vars

\* The paths a job has read, written or deleted so far.
Touched(job) == job.reads \cup job.writes \cup job.deletes

DistinctNames(j, k) == PathName(jobs[j].input) # PathName(jobs[k].input)

DistinctStems(j, k) == jobs[j].input.stem # jobs[k].input.stem

OutsideOutput(k) == jobs[k].input.dir # output_dir

\* C10 (as claimed): for distinct input file names, no job reads, writes or
\* deletes a path that another job writes.
C10_NoContention ==
    \A j, k \in DOMAIN jobs :
        (j # k /\ DistinctNames(j, k))
        => Touched(jobs[j]) \cap jobs[k].writes = {}

\* C10 (amended): for input files of distinct stems, none of them in the
\* output directory, no job reads, writes or deletes a path that another
\* job writes.
C10_NoContentionDistinctStems ==
    \A j, k \in DOMAIN jobs :
        ( /\ j # k
          /\ DistinctStems(j, k)
          /\ OutsideOutput(j)
          /\ OutsideOutput(k) )
        => Touched(jobs[j]) \cap jobs[k].writes = {}

\* Two workers given files of distinct stems outside the output directory
\* have both run to the end, each having written and deleted its stage
\* files and kept its final file.
C10_Witness ==
    \E j, k \in DOMAIN jobs :
        /\ j # k
        /\ DistinctStems(j, k)
        /\ OutsideOutput(j)
        /\ OutsideOutput(k)
        /\ \A w \in {j, k} :
              /\ jobs[w].pc = "returned"
              /\ jobs[w].result.success
              /\ Cardinality(jobs[w].writes) = 5
              /\ Cardinality(jobs[w].deletes) = 4
              /\ Exists(fs, FinalPath(jobs[w].output_name))

(***************************************************************************)
(* One stage alone, on the samples it loaded.                              *)
(*                                                                         *)
(* A buffer y is a sequence of blocks of hop_length samples, each block    *)
(* with one squared amplitude for all its samples, followed by `tail`      *)
(* silent samples (fewer than a block).  A frame of frame_length samples   *)
(* at hop i is the blocks i+1 .. i+frame_length/hop_length.                *)
(***************************************************************************)
Samples(blocks, tail) == [blocks |-> blocks, tail |-> tail]

SampleCount(y) == hop_length * Len(y.blocks) + y.tail

BlocksPerFrame == frame_length \div hop_length

\* int(x) for a rational x >= 0.
Floor(x) == x[1] \div x[2]

RMul(a, n) == Rat(a[1] * n, a[2])

(***************************************************************************)
(* Stage 5: stage_5_extract_best_segment(input_path, output_path,          *)
(* target_duration), lines 169-228.                                        *)
(***************************************************************************)
\* Lines 192-193: frame_energy = np.sum(frames ** 2, axis=0), one value per
\* frame of librosa.util.frame(y, frame_length, hop_length).
FrameEnergy(y) ==
    [i \in 1..NumFrames(SampleCount(y)) |->
        hop_length * SumSeq(SubSeq(y.blocks, i, i + BlocksPerFrame - 1))]

\* Lines 196-198.
TargetFrames(frame_energy, sr, duration) ==
    LET target_frames == Floor(Rat(duration[1] * sr, duration[2] * hop_length))
    IN  IF target_frames > Len(frame_energy) THEN Len(frame_energy) ELSE target_frames

\* Line 205: np.mean(frame_energy[i:i+target_frames]) for i from 0.  The
\* mean of an empty slice is nan, here <<0, 0>>, which is greater than
\* nothing.
WindowEnergy(frame_energy, target_frames, i) ==
    Rat(SumSeq(SubSeq(frame_energy, i + 1, i + target_frames)), target_frames)

\* Lines 201-208: the scan, from window i on, with the maximum so far.
RECURSIVE ScanLastWins(_, _, _, _, _)
ScanLastWins(frame_energy, target_frames, i, max_energy, best_start) ==
    IF i > Len(frame_energy) - target_frames
    THEN best_start
    ELSE LET window_energy == WindowEnergy(frame_energy, target_frames, i)
         IN  IF RGe(window_energy, max_energy)
             THEN ScanLastWins(frame_energy, target_frames, i + 1, window_energy, i)
             ELSE ScanLastWins(frame_energy, target_frames, i + 1, max_energy, best_start)

RECURSIVE Scan(_, _, _, _, _)
Scan(frame_energy, target_frames, i, max_energy, best_start) ==
    IF i > Len(frame_energy) - target_frames
    THEN best_start
    ELSE LET window_energy == WindowEnergy(frame_energy, target_frames, i)
         IN  IF RGt(window_energy, max_energy)
             THEN Scan(frame_energy, target_frames, i + 1, window_energy, i)
             ELSE Scan(frame_energy, target_frames, i + 1, max_energy, best_start)

\* The start of the frame with the most energy.
BestStartLoudestFrame(frame_energy, target_frames) ==
    IF frame_energy = <<>> THEN 0
    ELSE (CHOOSE i \in DOMAIN frame_energy :
            /\ \A j \in DOMAIN frame_energy : frame_energy[j] <= frame_energy[i]
            /\ \A j \in 1..(i - 1) : frame_energy[j] < frame_energy[i]) - 1

BestStart(frame_energy, target_frames) ==
    Scan(frame_energy, target_frames, 0, Rat(0, 1), 0)

\* y[a:b] of a buffer of n samples: the index range Python takes.
SliceIndex(n, a) ==
    IF a < 0 THEN (IF n + a < 0 THEN 0 ELSE n + a)
    ELSE IF a > n THEN n ELSE a

Slice(n, a, b) ==
    LET first == SliceIndex(n, a)
        last  == SliceIndex(n, b)
    IN  [first |-> first, last |-> IF last < first THEN first ELSE last]

\* Lines 211-218.
Segment(n, sr, duration, best_start) ==
    LET start_sample == best_start * hop_length
        end_sample   == start_sample + Floor(RMul(duration, sr))
    IN  IF end_sample > n
        THEN Slice(n, n - Floor(RMul(duration, sr)), n)
        ELSE Slice(n, start_sample, end_sample)

\* The outcome of a stage called alone: nothing written and False, or the
\* index range [first, last) of y written at a sample rate, and True.
Failed == [kind |-> "returned", ret |-> FALSE, wrote |-> FALSE]

Wrote(first, last, sr, extra) ==
    [kind        |-> "returned",
     ret         |-> TRUE,
     wrote       |-> TRUE,
     first       |-> first,
     last        |-> last,
     sample_rate |-> sr,
     detail      |-> extra]

\* Lines 180-182: duration = len(y) / sr; `if duration <= target_duration`.
AlreadyShortStrict(n, sr, duration) == RLt(Rat(n, sr), duration)

AlreadyShort(n, sr, duration) == RLe(Rat(n, sr), duration)

\* Lines 179-228 on a buffer y at rate sr.
ExtractBestSegment(y, sr, duration) ==
    LET n == SampleCount(y)
    IN  IF AlreadyShort(n, sr, duration)
        THEN Wrote(0, n, sr, [how |-> "copy"])
        ELSE IF FrameRaises(n)
        THEN Failed
        ELSE LET frame_energy  == FrameEnergy(y)
                 target_frames == TargetFrames(frame_energy, sr, duration)
                 best_start    == BestStart(frame_energy, target_frames)
                 segment       == Segment(n, sr, duration, best_start)
             IN  Wrote(segment.first, segment.last, sr,
                       [how           |-> "segment",
                        frame_energy  |-> frame_energy,
                        target_frames |-> target_frames,
                        best_start    |-> best_start])

(***************************************************************************)
(* SpecSegment: stage 5 alone, on every buffer of up to MaxBlocks blocks   *)
(* and on the 12 s buffers of scenario A.                                  *)
(***************************************************************************)
MaxBlocks == 7

Levels == {0, 1, 3}

Tails == {0, 256}

SegmentRates == {256, 512, 1024}

TargetDurations == {Rat(1, 1), Rat(3, 2)}

StageCall(y, sr, duration, scenario) ==
    [kind            |-> "call",
     y               |-> y,
     sample_rate     |-> sr,
     target_duration |-> duration,
     scenario        |-> scenario]

NoScenario == [kind |-> "none"]

\* Scenario A at `rate` blocks per second: 12 s at level 1, but for one
\* silent second starting at second `silent` and one loud second starting
\* at second `loud`; target_duration is 5 s.
ScenarioSeconds == 0..11

ScenarioA(rate, silent, loud) ==
    StageCall(Samples([i \in 1..(Cardinality(ScenarioSeconds) * rate) |->
                          IF (i - 1) \div rate = silent THEN 0
                          ELSE IF (i - 1) \div rate = loud THEN 9
                          ELSE 1], 0),
              rate * hop_length, Rat(5, 1),
              [kind |-> "A", silent |-> silent, loud |-> loud])

ScenarioRates == {1, 2}

InitSegment ==
    /\ AnalysisIdle
    /\ CorpusIdle
    /\ RefineIdle
    /\ stage_out = [kind |-> "pending"]
    /\ api = [pc |-> "idle"]
    /\ \/ \E n \in 0..MaxBlocks :
            \E blocks \in [1..n -> Levels], tail \in Tails,
               sr \in SegmentRates, duration \in TargetDurations :
                buffer = StageCall(Samples(blocks, tail), sr, duration, NoScenario)
       \/ \E rate \in ScenarioRates, silent, loud \in ScenarioSeconds :
            /\ silent # loud
            /\ buffer = ScenarioA(rate, silent, loud)

ExtractSegment ==
    /\ buffer.kind = "call"
    /\ stage_out.kind = "pending"
    /\ stage_out' = ExtractBestSegment(buffer.y, buffer.sample_rate, buffer.target_duration)
    /\ UNCHANGED <<buffer, api, analysisVars, corpusVars, refineVars>>

NextSegment == ExtractSegment

SpecSegment == InitSegment /\ [][NextSegment]_vars

\* The buffer is longer than target_duration.
Longer == RGt(Rat(SampleCount(buffer.y), buffer.sample_rate), buffer.target_duration)

Selected == stage_out.kind = "returned" /\ stage_out.wrote /\ stage_out.detail.how = "segment"

\* The sum of the energies of the frames start+1 .. start+target_frames; for
\* one target_frames the means compare as the sums do.
WindowSum(frame_energy, start, target_frames) ==
    SumSeq([j \in 1..target_frames |-> frame_energy[start + j]])

WindowStarts(frame_energy, target_frames) == 0..(Len(frame_energy) - target_frames)

\* C12: for a buffer longer than target_duration, the window stage 5 selects
\* is one of the windows of target_frames consecutive frames, its mean frame
\* energy is at least that of every such window, and every window to its
\* left has a strictly smaller mean.
C12_FirstMaximalWindow ==
    (Selected /\ Longer /\ stage_out.detail.target_frames >= 1) =>
        LET fe == FrameEnergy(buffer.y)
            tf == stage_out.detail.target_frames
            bs == stage_out.detail.best_start
        IN  /\ bs \in WindowStarts(fe, tf)
            /\ \A i \in WindowStarts(fe, tf) :
                  /\ WindowSum(fe, i, tf) <= WindowSum(fe, bs, tf)
                  /\ i < bs => WindowSum(fe, i, tf) < WindowSum(fe, bs, tf)

\* The window selected is not the first one, and a window to its right has
\* the same mean.
C12_Witness ==
    /\ Selected
    /\ Longer
    /\ stage_out.detail.best_start > 0
    /\ \E i \in WindowStarts(FrameEnergy(buffer.y), stage_out.detail.target_frames) :
          /\ i > stage_out.detail.best_start
          /\ WindowSum(FrameEnergy(buffer.y), i, stage_out.detail.target_frames)
               = WindowSum(FrameEnergy(buffer.y), stage_out.detail.best_start,
                           stage_out.detail.target_frames)

\* int(target_duration * sr), the number of samples stage 5 cuts.
SegmentLength == Floor(RMul(buffer.target_duration, buffer.sample_rate))

\* C13: for every buffer longer than target_duration, stage 5 writes
\* int(target_duration * sample_rate) samples, one contiguous range of the
\* buffer with start >= 0 and end <= sample count.
C13_SegmentLengthAndRange ==
    (stage_out.kind = "returned" /\ Longer) =>
        /\ stage_out.wrote
        /\ stage_out.first >= 0
        /\ stage_out.last <= SampleCount(buffer.y)
        /\ stage_out.last - stage_out.first = SegmentLength

\* C14: when the buffer's duration is at most target_duration, stage 5
\* copies its input: the output holds all the samples of the input, at the
\* input's sample rate, and nothing of them is computed anew.
C14_ShortBufferUnchanged ==
    (stage_out.kind = "returned" /\ ~Longer) =>
        /\ stage_out.wrote
        /\ stage_out.detail.how = "copy"
        /\ stage_out.first = 0
        /\ stage_out.last = SampleCount(buffer.y)
        /\ stage_out.sample_rate = buffer.sample_rate

\* A buffer exactly target_duration long, shorter than one frame, was copied.
C14_Witness ==
    /\ stage_out.kind = "returned"
    /\ stage_out.wrote
    /\ REq(Rat(SampleCount(buffer.y), buffer.sample_rate), buffer.target_duration)
    /\ SampleCount(buffer.y) > 0
    /\ FrameRaises(SampleCount(buffer.y))
    /\ stage_out.last = SampleCount(buffer.y)

\* Scenario A: the samples of the loud second.
InScenarioA == buffer.kind = "call" /\ buffer.scenario.kind = "A"

LoudFirst == buffer.scenario.loud * buffer.sample_rate

LoudLast == LoudFirst + buffer.sample_rate

\* C15 (as claimed): in scenario A the segment returned starts within the
\* loud second.
C15_StartsInLoudRegion ==
    (InScenarioA /\ stage_out.kind = "returned") =>
        /\ stage_out.wrote
        /\ stage_out.first >= LoudFirst
        /\ stage_out.first < LoudLast

\* C15 (amended): in scenario A the segment returned is 5 s long and starts
\* where the selected window starts, and the mean frame energy of that
\* window is at least that of every window that starts within the loud
\* second.
C15_AtLeastAsLoudAsFromLoudRegion ==
    (InScenarioA /\ stage_out.kind = "returned") =>
        /\ Selected
        /\ stage_out.last - stage_out.first = SegmentLength
        /\ stage_out.first = stage_out.detail.best_start * hop_length
        /\ LET fe == FrameEnergy(buffer.y)
               tf == stage_out.detail.target_frames
           IN  \A i \in WindowStarts(fe, tf) :
                  (i * hop_length >= LoudFirst /\ i * hop_length < LoudLast)
                  => WindowSum(fe, i, tf) <= WindowSum(fe, stage_out.detail.best_start, tf)

\* Scenario A with the loud second late in the buffer: the segment starts
\* before the loud second and still covers all of it.
C15_Witness ==
    /\ InScenarioA
    /\ Selected
    /\ stage_out.first < LoudFirst
    /\ stage_out.last >= LoudLast
    /\ \E i \in WindowStarts(FrameEnergy(buffer.y), stage_out.detail.target_frames) :
          i * hop_length >= LoudFirst /\ i * hop_length < LoudLast

(***************************************************************************)
(* Stage 2: stage_2_remove_silence, lines 60-91:                           *)
(* librosa.effects.trim(y, top_db=20, frame_length=2048, hop_length=512).  *)
(* trim takes the rms of centred frames (the buffer padded with            *)
(* frame_length // 2 zeros on both sides, 1 + len(y) // hop_length         *)
(* frames), calls a frame non-silent when its level is less than top_db    *)
(* below the loudest frame's, and returns y[start:end] from the first      *)
(* non-silent frame to the end of the last one.                            *)
(***************************************************************************)
top_db == 20

BlockAt(y, i) == IF i \in DOMAIN y.blocks THEN y.blocks[i] ELSE 0

\* frame_length * mse of the centred frame t (from 0): the squared samples
\* of the frame_length // 2 samples before and after sample t * hop_length.
FramePower(y, t) ==
    LET half == BlocksPerFrame \div 2
    IN  hop_length * SumSeq([j \in 1..BlocksPerFrame |-> BlockAt(y, t - half + j)])

\* power_to_db(mse, ref=max(mse), amin=1e-10) > -top_db, that is
\* power * 10^(top_db / 10) > ref.  The powers are whole numbers: one that
\* is 0 is raised to amin, and is within top_db of the reference only when
\* the reference is 0 as well.
NonSilent(power, ref) ==
    IF ref = 0 THEN TRUE
    ELSE IF power = 0 THEN FALSE
    ELSE power * 10 ^ (top_db \div 10) > ref

NonSilentFrames(y) ==
    LET frames == 0..(SampleCount(y) \div hop_length)
        ref    == CHOOSE m \in {FramePower(y, t) : t \in frames} :
                     \A t \in frames : FramePower(y, t) <= m
    IN  {t \in frames : NonSilent(FramePower(y, t), ref)}

SetMin(S) == CHOOSE m \in S : \A x \in S : m <= x

SetMax(S) == CHOOSE m \in S : \A x \in S : x <= m

\* end = min(len(y), frames_to_samples(nonzero[-1] + 1)).
TrimEndUnclamped(n, last_frame) == (last_frame + 1) * hop_length

TrimEnd(n, last_frame) ==
    IF (last_frame + 1) * hop_length < n THEN (last_frame + 1) * hop_length ELSE n

\* The interval [start, end] trim returns.
TrimInterval(y) ==
    LET nonzero == NonSilentFrames(y)
    IN  IF nonzero # {}
        THEN [start |-> SetMin(nonzero) * hop_length,
              end   |-> TrimEnd(SampleCount(y), SetMax(nonzero))]
        ELSE [start |-> 0, end |-> 0]

\* Lines 69-87 on a buffer y at rate sr.
RemoveSilence(y, sr) ==
    LET interval == TrimInterval(y)
        trimmed  == Slice(SampleCount(y), interval.start, interval.end)
    IN  Wrote(trimmed.first, trimmed.last, sr,
              [how |-> "trim", start |-> interval.start, end |-> interval.end])

(***************************************************************************)
(* SpecTrim: stage 2 alone, on every buffer of up to MaxBlocks blocks that *)
(* are silent, quiet or loud.                                              *)
(***************************************************************************)
TrimLevels == {0, 1, 500}

InitTrim ==
    /\ AnalysisIdle
    /\ CorpusIdle
    /\ RefineIdle
    /\ stage_out = [kind |-> "pending"]
    /\ api = [pc |-> "idle"]
    /\ \E n \in 0..MaxBlocks :
          \E blocks \in [1..n -> TrimLevels], tail \in Tails :
              buffer = [kind |-> "trim", y |-> Samples(blocks, tail), sample_rate |-> 22050]

TrimSilence ==
    /\ buffer.kind = "trim"
    /\ stage_out.kind = "pending"
    /\ stage_out' = RemoveSilence(buffer.y, buffer.sample_rate)
    /\ UNCHANGED <<buffer, api, analysisVars, corpusVars, refineVars>>

NextTrim == TrimSilence

SpecTrim == InitTrim /\ [][NextTrim]_vars

\* C16: the samples stage 2 writes are one contiguous range of its input,
\* y[start:end] with 0 <= start <= end <= len(y): never more samples than
\* the input, and a duration no longer than the input's.
C16_TrimIsSubRange ==
    (buffer.kind = "trim" /\ stage_out.kind = "returned") =>
        /\ stage_out.wrote
        /\ 0 <= stage_out.detail.start
        /\ stage_out.detail.start <= stage_out.detail.end
        /\ stage_out.detail.end <= SampleCount(buffer.y)
        /\ stage_out.first = stage_out.detail.start
        /\ stage_out.last = stage_out.detail.end
        /\ stage_out.last - stage_out.first <= SampleCount(buffer.y)
        /\ stage_out.sample_rate = buffer.sample_rate

\* Silence was cut at both ends of a buffer that ends inside a block.
C16_Witness ==
    /\ buffer.kind = "trim"
    /\ stage_out.kind = "returned"
    /\ stage_out.first > 0
    /\ stage_out.last < SampleCount(buffer.y)
    /\ stage_out.last > stage_out.first
    /\ buffer.y.tail > 0

(***************************************************************************)
(* Stage 1: stage_1_normalize_audio, lines 30-58.  Here a buffer is the    *)
(* sequence of its samples, each an exact fraction of full scale.  The     *)
(* target peak 10^(-3/20) is irrational: a normalized sample is kept as    *)
(* its multiple of target_peak, so y_i * (target_peak / peak) is the       *)
(* fraction y_i / peak in the unit "target_peak".                          *)
(***************************************************************************)
RAbs(a) == Rat(Abs(a[1]), a[2])

RTimes(a, b) == Norm(<<a[1] * b[1], a[2] * b[2]>>)

RMax(a, b) == IF RGe(a, b) THEN a ELSE b

\* np.max over a non-empty sequence.
RECURSIVE MaxOf(_)
MaxOf(s) == IF Len(s) = 1 THEN s[1] ELSE RMax(s[1], MaxOf(Tail(s)))

\* Line 43: peak = np.max(np.abs(y)).
PeakNoAbs(y) == MaxOf(y)

Peak(y) == MaxOf([i \in DOMAIN y |-> RAbs(y[i])])

\* Lines 44-48.
NormalizeSamples(y) ==
    LET peak == Peak(y)
    IN  IF RGt(peak, Rat(0, 1))
        THEN [unit    |-> "target_peak",
              samples |-> [i \in DOMAIN y |-> RTimes(y[i], RDiv(Rat(1, 1), peak))]]
        ELSE [unit |-> "full_scale", samples |-> y]

\* Lines 40-54 on a buffer y at rate sr; np.max of an empty buffer raises.
NormalizeAudio(y, sr) ==
    IF y = <<>>
    THEN Failed
    ELSE Wrote(0, Len(y), sr, [how |-> "normalize", y_normalized |-> NormalizeSamples(y)])

(***************************************************************************)
(* SpecNormalize: stage 1 alone, on every buffer of up to MaxSamples       *)
(* samples.                                                                *)
(***************************************************************************)
MaxSamples == 3

Amplitudes == {Rat(-1, 1), Rat(-1, 2), Rat(0, 1), Rat(1, 4), Rat(1, 2)}

InitNormalize ==
    /\ AnalysisIdle
    /\ CorpusIdle
    /\ RefineIdle
    /\ stage_out = [kind |-> "pending"]
    /\ api = [pc |-> "idle"]
    /\ \E n \in 0..MaxSamples :
          \E y \in [1..n -> Amplitudes] :
              buffer = [kind |-> "normalize", y |-> y, sample_rate |-> 22050]

NormalizeStage ==
    /\ buffer.kind = "normalize"
    /\ stage_out.kind = "pending"
    /\ stage_out' = NormalizeAudio(buffer.y, buffer.sample_rate)
    /\ UNCHANGED <<buffer, api, analysisVars, corpusVars, refineVars>>

NextNormalize == NormalizeStage

SpecNormalize == InitNormalize /\ [][NextNormalize]_vars

\* The largest absolute sample of the buffer under normalization.
InputPeak ==
    CHOOSE p \in {RAbs(buffer.y[i]) : i \in DOMAIN buffer.y} :
        \A i \in DOMAIN buffer.y : RLe(RAbs(buffer.y[i]), p)

NormalizeReturned == buffer.kind = "normalize" /\ stage_out.kind = "returned" /\ buffer.y # <<>>

\* C17: when peak > 0 every output sample is the input sample times the one
\* factor target_peak / peak, and the largest absolute output sample is
\* target_peak; when peak = 0 the output is the input.
C17_ScaledToTargetPeak ==
    NormalizeReturned =>
        LET out == stage_out.detail.y_normalized
        IN  /\ stage_out.wrote
            /\ DOMAIN out.samples = DOMAIN buffer.y
            /\ IF RGt(InputPeak, Rat(0, 1))
               THEN /\ out.unit = "target_peak"
                    /\ \A i \in DOMAIN buffer.y :
                          REq(RTimes(out.samples[i], InputPeak), buffer.y[i])
                    /\ \E i \in DOMAIN buffer.y : REq(RAbs(out.samples[i]), Rat(1, 1))
                    /\ \A i \in DOMAIN buffer.y : RLe(RAbs(out.samples[i]), Rat(1, 1))
               ELSE /\ out.unit = "full_scale"
                    /\ out.samples = buffer.y

\* A buffer whose peak is a negative sample was scaled to target_peak.
C17_Witness ==
    /\ NormalizeReturned
    /\ stage_out.detail.y_normalized.unit = "target_peak"
    /\ \E i \in DOMAIN buffer.y :
          /\ buffer.y[i][1] < 0
          /\ REq(RAbs(buffer.y[i]), InputPeak)
          /\ \A j \in DOMAIN buffer.y : j # i => RLt(RAbs(buffer.y[j]), InputPeak)
    /\ \E j \in DOMAIN buffer.y : buffer.y[j][1] > 0

(***************************************************************************)
(* The per-frame series of the analyzer and of stage 5.                    *)
(***************************************************************************)
\* The length the per-frame series are said to have.
WholeFrames(sample_count) ==
    IF sample_count >= 2048 THEN (sample_count - 2048) \div 512 + 1 ELSE 0

Analyzed == metrics.kind # "pending" /\ audio.decodable

StftFrames(num_samples) == 1 + num_samples \div hop_length

\* Line 109: np.abs(stft).
Magnitude(z) ==
    CHOOSE m \in 0..(Abs(z[1]) + Abs(z[2])) : m * m = z[1] * z[1] + z[2] * z[2]

\* Line 110: np.angle(stft), kept as the unit vector exp(1j * phase);
\* np.angle(0) is 0.
Phase(z) ==
    IF Magnitude(z) = 0 THEN <<Rat(1, 1), Rat(0, 1)>>
    ELSE <<Rat(z[1], Magnitude(z)), Rat(z[2], Magnitude(z))>>

\* Line 113: noise_frames = int(0.5 * sr / 512).
NoiseFrames(sr) == sr \div (2 * hop_length)

UsesMedianInclusive(noise_frames, num_frames) ==
    noise_frames > 0 /\ noise_frames <= num_frames

\* Line 114: `if noise_frames > 0 and noise_frames < magnitude.shape[1]`.
UsesMedian(noise_frames, num_frames) ==
    noise_frames > 0 /\ noise_frames < num_frames

\* np.median of a non-empty series: the middle value of the sorted series,
\* or the mean of the two middle values.
Median(a) ==
    LET sorted == SortInts(a)
        n      == Len(a)
    IN  IF n % 2 = 1 THEN Rat(sorted[(n + 1) \div 2], 1)
        ELSE Norm(<<sorted[n \div 2] + sorted[n \div 2 + 1], 2>>)

\* Lines 114-117, for the magnitudes of one frequency bin.
NoiseFloor(magnitude, sr) ==
    IF UsesMedian(NoiseFrames(sr), Len(magnitude))
    THEN Median(SubSeq(magnitude, 1, NoiseFrames(sr)))
    ELSE Percentile(magnitude, 10)

GateInclusive(m, noise_floor) ==
    IF RGe(Rat(m, 1), RTimes(noise_floor, Rat(2, 1))) THEN Rat(m, 1) ELSE Rat(m, 10)

\* Lines 120-122: threshold = noise_floor * 2.0; mask = magnitude > threshold;
\* magnitude * mask + magnitude * 0.1 * (~mask).
Gate(m, noise_floor) ==
    IF RGt(Rat(m, 1), RTimes(noise_floor, Rat(2, 1))) THEN Rat(m, 1) ELSE Rat(m, 10)

\* Line 125: magnitude_denoised * np.exp(1j * phase).
Reconstruct(m, phase) == <<RTimes(m, phase[1]), RTimes(m, phase[2])>>

\* The try block of stage 3 up to the spectrogram handed to istft.
SpectralDenoise(stft, sr) ==
    LET magnitude   == [b \in DOMAIN stft |->
                           [t \in DOMAIN stft[b] |-> Magnitude(stft[b][t])]]
        noise_floor == [b \in DOMAIN stft |-> NoiseFloor(magnitude[b], sr)]
        denoised    == [b \in DOMAIN stft |->
                           [t \in DOMAIN stft[b] |->
                               Reconstruct(Gate(magnitude[b][t], noise_floor[b]),
                                           Phase(stft[b][t]))]]
    IN  [kind  |-> "returned",
         ret   |-> TRUE,
         wrote |-> TRUE,
         detail |-> [how           |-> IF UsesMedian(NoiseFrames(sr), Len(stft[1]))
                                       THEN "median" ELSE "percentile",
                     noise_floor   |-> noise_floor,
                     stft_denoised |-> denoised]]

(***************************************************************************)
(* SpecDenoise: stage 3 applied to one buffer.  The sample rates give 0, 1 *)
(* and 2 noise frames, the buffers 1, 2 and 3 STFT frames.                 *)
(***************************************************************************)
DenoiseRates == {512, 1024, 2048}

DenoiseLengths == {100, 512, 1024}

Bins == {1, 2}

\* Bin values of magnitude 0, 1, 2 and 5.
BinValues == {<<0, 0>>, <<-1, 0>>, <<0, 2>>, <<3, -4>>}

InitDenoise ==
    /\ AnalysisIdle
    /\ CorpusIdle
    /\ RefineIdle
    /\ stage_out = [kind |-> "pending"]
    /\ api = [pc |-> "idle"]
    /\ \E n \in DenoiseLengths, sr \in DenoiseRates :
          \E stft \in [Bins -> [1..StftFrames(n) -> BinValues]] :
              buffer = [kind |-> "denoise", num_samples |-> n, sample_rate |-> sr,
                        stft |-> stft]

NoiseReduction ==
    /\ buffer.kind = "denoise"
    /\ stage_out.kind = "pending"
    /\ stage_out' = SpectralDenoise(buffer.stft, buffer.sample_rate)
    /\ UNCHANGED <<buffer, api, analysisVars, corpusVars, refineVars>>

NextDenoise == NoiseReduction

SpecDenoise == InitDenoise /\ [][NextDenoise]_vars

Denoise_Returned == buffer.kind = "denoise" /\ stage_out.kind = "returned"

\* The magnitudes of bin b of the buffer, frame by frame.
BinMagnitudes(b) == [t \in DOMAIN buffer.stft[b] |-> Magnitude(buffer.stft[b][t])]

\* What the noise floor of every bin is when it is the median of the first
\* noise frames (the 50th percentile of those frames), and when it is the
\* 10th percentile of all frames.
FloorIsMedian ==
    \A b \in Bins :
        stage_out.detail.noise_floor[b] =
            Percentile(SubSeq(BinMagnitudes(b), 1, NoiseFrames(buffer.sample_rate)), 50)

FloorIsPercentile ==
    \A b \in Bins : stage_out.detail.noise_floor[b] = Percentile(BinMagnitudes(b), 10)

\* C27 (as stated): the noise floor is the median over the frames of the
\* first 0.5 s whenever the number of noise frames int(0.5 x sample_rate /
\* 512) is at least 1 and at most the number of STFT frames, and the 10th
\* percentile across all frames only otherwise.
C27_MedianWhenAtMostAllFrames ==
    Denoise_Returned =>
        IF /\ NoiseFrames(buffer.sample_rate) >= 1
           /\ NoiseFrames(buffer.sample_rate) <= StftFrames(buffer.num_samples)
        THEN FloorIsMedian
        ELSE FloorIsPercentile

\* C27 (amended): the noise floor is the median over the first noise frames
\* whenever their number is at least 1 and strictly less than the number of
\* STFT frames, and the 10th percentile across all frames otherwise, also
\* when the noise frames are exactly all the frames.
C27_MedianWhenFewerThanAllFrames ==
    Denoise_Returned =>
        IF /\ NoiseFrames(buffer.sample_rate) >= 1
           /\ NoiseFrames(buffer.sample_rate) < StftFrames(buffer.num_samples)
        THEN stage_out.detail.how = "median" /\ FloorIsMedian
        ELSE stage_out.detail.how = "percentile" /\ FloorIsPercentile

\* A median of two noise frames that differs from the 10th percentile of
\* all three frames.
C27_Witness ==
    /\ Denoise_Returned
    /\ NoiseFrames(buffer.sample_rate) = 2
    /\ stage_out.detail.how = "median"
    /\ ~FloorIsPercentile

\* The bin at row b and frame t is above the gate's threshold.
AboveThreshold(b, t) ==
    RGt(Rat(Magnitude(buffer.stft[b][t]), 1),
        RTimes(stage_out.detail.noise_floor[b], Rat(2, 1)))

\* The complex number z times the positive factor n / d.
Scaled(z, n, d) == <<Norm(<<z[1] * n, d>>), Norm(<<z[2] * n, d>>)>>

\* C28: every bin whose magnitude is strictly above 2.0 x noise_floor keeps
\* its magnitude, and every bin at or below that threshold is attenuated to
\* exactly 10% of its magnitude; no bin is zeroed unless it was zero, and
\* the phase of every bin is unchanged: the bin handed to the inverse
\* transform is the input bin itself or one tenth of it.
C28_KeepOrAttenuateToTenth ==
    Denoise_Returned =>
        \A b \in Bins : \A t \in DOMAIN buffer.stft[b] :
            LET z == buffer.stft[b][t]
                o == stage_out.detail.stft_denoised[b][t]
            IN  /\ IF AboveThreshold(b, t) THEN o = Scaled(z, 1, 1) ELSE o = Scaled(z, 1, 10)
                /\ (o[1][1] = 0 /\ o[2][1] = 0) => z = <<0, 0>>

\* In one row a bin is kept, a non-zero bin is attenuated and a non-zero
\* bin stands exactly on the threshold.
C28_Witness ==
    /\ Denoise_Returned
    /\ \E b \in Bins : \E t, u, v \in DOMAIN buffer.stft[b] :
          /\ AboveThreshold(b, t)
          /\ ~AboveThreshold(b, u) /\ Magnitude(buffer.stft[b][u]) > 0
          /\ REq(Rat(Magnitude(buffer.stft[b][v]), 1),
                 RTimes(stage_out.detail.noise_floor[b], Rat(2, 1)))
          /\ Magnitude(buffer.stft[b][v]) > 0

(***************************************************************************)
(* refine_and_clone.py, main(): analyze, filter, refine the first five,    *)
(* and take the first refined file as the reference of the cloning.        *)
(* batch.status is the step main stands before; from step 3 on batch is    *)
(* the call of process_high_quality_files that main makes.                 *)
(***************************************************************************)
\* Line 92: top_n=5.
RefineTopN == 5

\* Lines 66-74: filter_high_quality(60, 5.0, 0.4), or the first five of
\* quality_results when nothing passes.
HighQuality(quality_results) ==
    LET high_quality == FilterLoop(<<>>, quality_results, 60, Rat(5, 1), Rat(2, 5))
    IN  IF high_quality = <<>>
        THEN SubSeq(quality_results, 1, Min(5, Len(quality_results)))
        ELSE high_quality

LastRefined(refined_files) == refined_files[Len(refined_files)]

\* Line 107: best_refined = refined_files[0].
BestRefined(refined_files) == refined_files[1]

\* Lines 49-54: step 1.
AnalyzeQuality ==
    /\ batch.status = "step1"
    /\ calls' = calls + 1
    /\ LET found    == IF audio_dir.exists
                       THEN FindAudioFiles(audio_dir, audio_extensions) ELSE <<>>
           appended == CollectMetrics(found)
           sorted   == SortByScoreDescending(results \o appended)
       IN  /\ audio_files' = found
           /\ prior' = results
           /\ collected' = appended
           /\ results' = sorted
           /\ batch' = [status |-> IF sorted = <<>> THEN "failed" ELSE "step2"]
    /\ UNCHANGED <<audio_dir, filtered, fs, jobs, analysisVars, stageVars>>

\* Lines 66-92: step 2 and the call of process_high_quality_files.
FilterForRefinement ==
    /\ batch.status = "step2"
    /\ filtered' = [kind         |-> "list",
                    items        |-> FilterLoop(<<>>, results, 60, Rat(5, 1), Rat(2, 5)),
                    min_score    |-> 60,
                    min_duration |-> Rat(5, 1),
                    max_silence  |-> Rat(2, 5),
                    at_call      |-> calls]
    /\ batch' = [status          |-> "running",
                 caller          |-> "main",
                 quality_results |-> HighQuality(results),
                 top_n           |-> RefineTopN,
                 i               |-> 1,
                 processed       |-> <<>>,
                 reference       |-> "none"]
    /\ UNCHANGED <<audio_dir, audio_files, results, prior, collected, calls,
                   fs, jobs, analysisVars, stageVars>>

\* Lines 94-108: no refined file ends main; else the first is the reference.
SelectReference ==
    /\ batch.status = "returned"
    /\ "caller" \in DOMAIN batch
    /\ batch' = IF batch.processed = <<>>
                THEN [batch EXCEPT !.status = "failed"]
                ELSE [batch EXCEPT !.status = "cloning",
                                   !.reference = BestRefined(batch.processed).output]
    /\ UNCHANGED <<fs, jobs, analysisVars, corpusVars, stageVars>>

(***************************************************************************)
(* SpecPipeline: one run of main() over a directory of recordings.  Where  *)
(* Path.glob ignores case every recording is listed twice, so that three   *)
(* recordings give six candidates.                                         *)
(***************************************************************************)
PipelineFiles == {Take("take1", ".wav"), Take("take2", ".wav"), Clean, Noisy, Corrupt}

\* The recording as the refiner finds it on disk.
PipelineContent(f) ==
    IF f.decodable
    THEN Audio(PathStr(f.path), f.num_samples \div f.sample_rate, f.sample_rate, 0)
    ELSE Truncated(PathStr(f.path))

PipelineDisk(entries) ==
    [q \in {PathStr(entries[n].path) : n \in DOMAIN entries} |->
        PipelineContent(entries[CHOOSE n \in DOMAIN entries : PathStr(entries[n].path) = q])]

InitPipeline ==
    /\ AnalysisIdle
    /\ StageIdle
    /\ \E ci \in BOOLEAN, entries \in DistinctSeqs(PipelineFiles, 3) :
          /\ audio_dir = [exists |-> TRUE, case_insensitive |-> ci, entries |-> entries]
          /\ fs = PipelineDisk(entries)
    /\ audio_files = <<>>
    /\ results = <<>>
    /\ prior = <<>>
    /\ collected = <<>>
    /\ filtered = [kind |-> "none"]
    /\ calls = 0
    /\ jobs = <<>>
    /\ batch = [status |-> "step1"]

NextPipeline ==
    \/ AnalyzeQuality
    \/ FilterForRefinement
    \/ ProcessNext
    \/ stage_1_normalize_audio
    \/ stage_2_remove_silence
    \/ stage_3_noise_reduction
    \/ stage_4_resample_optimal
    \/ stage_5_extract_best_segment
    \/ Cleanup
    \/ Report
    \/ Collect
    \/ Propagate
    \/ BatchReturn
    \/ SelectReference

SpecPipeline == InitPipeline /\ [][NextPipeline]_vars

InMain == "caller" \in DOMAIN batch

\* The list main hands to the refiner, told from results and the filter.
Candidates ==
    IF filtered.items # <<>> THEN filtered.items
    ELSE SubSeq(results, 1, Min(5, Len(results)))

\* The calls of process_audio_file that reported success, in call order.
Succeeded == {k \in DOMAIN jobs : jobs[k].result.kind = "result" /\ jobs[k].result.success}

(***************************************************************************)
(* C29: in the refine_and_clone pipeline at most 5 files are refined, they *)
(* are the first entries of the filtered list (or of the top-5-by-score    *)
(* fallback when no file passes the filter), processed in descending rank  *)
(* order, and the reference audio used for cloning is the refined output   *)
(* of the highest-ranked file whose refinement succeeded.                  *)
(***************************************************************************)
C29_TopFiveInRankOrder ==
    InMain =>
        /\ Len(jobs) <= 5
        /\ Len(jobs) <= Len(Candidates)
        /\ \A k \in DOMAIN jobs :
              /\ jobs[k].input = Candidates[k].file
              /\ \A j \in 1..(k - 1) :
                    Candidates[j].quality_score >= Candidates[k].quality_score
        /\ batch.status \in {"returned", "cloning", "failed"} =>
              Len(jobs) = Min(5, Len(Candidates))
        /\ batch.status = "cloning" =>
              /\ Succeeded # {}
              /\ LET best == CHOOSE k \in Succeeded : \A j \in Succeeded : k <= j
                 IN  /\ batch.reference = FinalPath(jobs[best].output_name)
                     /\ Exists(fs, batch.reference)
                     /\ \A j \in 1..(best - 1) : ~jobs[j].result.success

\* Six candidates, five refined, the refinement of the first failed and the
\* reference is the output of the second.
C29_Witness ==
    /\ InMain
    /\ batch.status = "cloning"
    /\ Len(Candidates) > 5
    /\ Len(jobs) = 5
    /\ ~jobs[1].result.success
    /\ batch.reference = FinalPath(jobs[2].output_name)

(***************************************************************************)
(* call_indextts2_api.py, call_indextts2_api(): the checks before the      *)
(* call, the retry loop around client.predict (lines 157-249) and the      *)
(* download of the result (lines 251-339).  An error of predict is told by *)
(* the words of its message: quota is "quota" or "exceeded", auth is       *)
(* "authentication", "token" or "unauthorized".                            *)
(***************************************************************************)
max_retries == 3

retry_delay == 30

ErrorMessages == [quota : BOOLEAN, auth : BOOLEAN]

\* Lines 201 and 227: the quota test comes first, the other is its elif.
IsQuotaError(e) == e.quota

IsAuthError(e) == ~e.quota /\ e.auth

WaitTimeConstant(attempt) == retry_delay

\* Line 211: wait_time = retry_delay * (attempt + 1).
WaitTime(attempt) == retry_delay * (attempt + 1)

\* What predict can return: a dict with one of the keys looked for or with
\* none of them, a FileData object, a string, or something else.
PredictResults == {"value", "path", "url", "name", "no_key", "FileData", "str", "other"}

\* Lines 262-288: whether a file path comes out of the result.
HasFilePath(result) == result \notin {"no_key", "other"}

NewCall ==
    [pc         |-> "connect",
     attempt    |-> 0,
     predicts   |-> 0,
     errors     |-> <<>>,
     sleeps     |-> <<>>,
     result     |-> "none",
     downloaded |-> FALSE,
     ret        |-> "none"]

\* Lines 54-106: gradio_client missing, the voice reference missing, or the
\* client failing to connect return False before any call.
Connect ==
    /\ api.pc = "connect"
    /\ \E installed, found, connected \in BOOLEAN :
          api' = IF installed /\ found /\ connected
                 THEN [api EXCEPT !.pc = "predict"]
                 ELSE [api EXCEPT !.pc = "returned", !.ret = FALSE]
    /\ UNCHANGED <<buffer, stage_out, analysisVars, corpusVars, refineVars>>

\* Lines 163-185: client.predict returns; break.
PredictReturns ==
    /\ api.pc = "predict"
    /\ \E result \in PredictResults :
          api' = [api EXCEPT !.pc = "download", !.predicts = @ + 1, !.result = result]
    /\ UNCHANGED <<buffer, stage_out, analysisVars, corpusVars, refineVars>>

\* Lines 187-249: client.predict raises.
PredictRaises ==
    /\ api.pc = "predict"
    /\ \E e \in ErrorMessages :
          api' = [api EXCEPT
                    !.predicts = @ + 1,
                    !.errors   = Append(@, e),
                    !.pc       = IF IsQuotaError(e)
                                 THEN IF api.attempt < max_retries - 1
                                      THEN "sleep" ELSE "returned"
                                 ELSE IF IsAuthError(e) THEN "returned"
                                 ELSE "raised",
                    !.ret      = IF IsQuotaError(e) /\ api.attempt < max_retries - 1
                                 THEN @
                                 ELSE IF IsQuotaError(e) \/ IsAuthError(e) THEN FALSE
                                 ELSE @]
    /\ UNCHANGED <<buffer, stage_out, analysisVars, corpusVars, refineVars>>

\* Lines 211-215: time.sleep(wait_time); continue.
Sleep ==
    /\ api.pc = "sleep"
    /\ api' = [api EXCEPT !.pc = "predict",
                          !.sleeps = Append(@, WaitTime(api.attempt)),
                          !.attempt = @ + 1]
    /\ UNCHANGED <<buffer, stage_out, analysisVars, corpusVars, refineVars>>

\* Lines 251-339: no file path returns False; else the file is fetched,
\* and the call returns True when the output file is there, False when it
\* is not or when fetching raised.
Download ==
    /\ api.pc = "download"
    /\ \E created \in BOOLEAN :
          api' = [api EXCEPT !.pc = "returned",
                             !.downloaded = TRUE,
                             !.ret = HasFilePath(api.result) /\ created]
    /\ UNCHANGED <<buffer, stage_out, analysisVars, corpusVars, refineVars>>

InitApi ==
    /\ AnalysisIdle
    /\ CorpusIdle
    /\ RefineIdle
    /\ buffer = [kind |-> "none"]
    /\ stage_out = [kind |-> "idle"]
    /\ api = NewCall

NextApi ==
    \/ Connect
    \/ PredictReturns
    \/ PredictRaises
    \/ Sleep
    \/ Download

SpecApi == InitApi /\ [][NextApi]_vars

\* A predict call of this invocation has returned a result.
PredictSucceeded == api.result # "none"

ApiEnded == api.pc \in {"returned", "raised"}

(***************************************************************************)
(* C30: call_indextts2_api calls the remote predict endpoint at most 3     *)
(* times per invocation; a further attempt is made only after a quota or   *)
(* exceeded error and only after waiting 30 s x the number of failed       *)
(* attempts (30 s, then 60 s); an authentication error returns False with  *)
(* no retry, any other error is re-raised with no retry, a third quota     *)
(* error returns False, and the download step is reached only after a      *)
(* predict call succeeded.  An authentication error is one that is not a   *)
(* quota error: the quota test comes first.                                *)
(***************************************************************************)
C30_RetryOnlyOnQuota ==
    api.pc # "idle" =>
        LET failed == Len(api.errors)
        IN  /\ api.predicts <= 3
            /\ api.predicts = failed + (IF PredictSucceeded THEN 1 ELSE 0)
            /\ \A i \in 1..(failed - 1) : api.errors[i].quota
            /\ PredictSucceeded => \A i \in 1..failed : api.errors[i].quota
            /\ Len(api.sleeps) = IF api.pc = "predict" THEN api.predicts
                                 ELSE IF api.predicts = 0 THEN 0
                                 ELSE api.predicts - 1
            /\ \A i \in DOMAIN api.sleeps : api.sleeps[i] = 30 * i
            /\ (failed > 0 /\ ~PredictSucceeded /\ api.pc # "predict") =>
                  LET last == api.errors[failed]
                  IN  IF last.quota
                      THEN IF failed = 3
                           THEN api.pc = "returned" /\ api.ret = FALSE
                           ELSE api.pc = "sleep"
                      ELSE IF last.auth
                      THEN api.pc = "returned" /\ api.ret = FALSE
                      ELSE api.pc = "raised"
            /\ (api.pc = "download" \/ api.downloaded) => PredictSucceeded

\* Two quota errors, waits of 30 s and 60 s, a third call that succeeded
\* and a download that returned True.
C30_Witness ==
    /\ api.pc = "returned"
    /\ api.ret = TRUE
    /\ api.predicts = 3
    /\ api.sleeps = <<30, 60>>
    /\ api.downloaded

====
